---- MODULE Spec2Model ----
(***************************************************************************)
(* A model of go.step.sm/sequel: the DB / Tx execution layer that stamps   *)
(* timestamps on models, binds and runs their query templates, verifies    *)
(* the affected-row count and mutates the model in place.                  *)
(*                                                                         *)
(* The relational backend is the environment.  It is modelled as a table   *)
(* of rows with a primary key (id) and a unique index (email), read        *)
(* committed transactions that keep their own pending writes, and row      *)
(* locks that make a conflicting writer wait.                              *)
(***************************************************************************)
EXTENDS Integers, Sequences, FiniteSets, TLC

\* ------------------------------------------------------------------ bounds

\* Steps of one behaviour: calls on the DB and the Tx, iterations of
\* InsertBatch's loop and advances of the clock.
MaxOps == 3
\* Length of the slice handed to InsertBatch.
MaxBatch == 2
\* Post-commit callbacks registered on one Tx.
MaxCallbacks == 2
\* Affected-row counts handed to RowsAffected: 0..MaxRows.
MaxRows == 10

\* ------------------------------------------------------------- the models

\* The caller-assigned id of the personModelExtra fixture.
ExtraID == 100

NoID == 0
NoEmail == "none"
ZeroTime == 0

\* The models of the test suite: a personModel and a personModelExtra.
Ent == {"p1", "p4"}

\* personModelExtra implements ModelWithExecInsert (and ModelWithHardDelete).
ExecInsertable(e) == e = "p4"

NullTime(t) == [Valid |-> t # ZeroTime, Time |-> t]

\* The other helpers of helpers.go; a float64 is written as an integer.
NullBool(b) == [Bool |-> b, Valid |-> b]
NullByte(b) == [Byte |-> b, Valid |-> b # 0]
NullFloat64(f) == [Float64 |-> f, Valid |-> f # 0]
NullInt16(i) == [Int16 |-> i, Valid |-> i # 0]
NullInt32(i) == [Int32 |-> i, Valid |-> i # 0]
NullInt64(i) == [Int64 |-> i, Valid |-> i # 0]

\* NullString taking every string for a value.
NullStringAlways(str) == [String |-> str, Valid |-> TRUE]

NullString(str) == [String |-> str, Valid |-> str # ""]

\* The helpers, the arguments they are called with and what each returns.
Helpers ==
    {"NullBool", "NullByte", "NullFloat64", "NullInt16", "NullInt32", "NullInt64",
     "NullString", "NullTime"}
HelperArgs(fn, t) ==
    IF fn = "NullBool" THEN BOOLEAN
    ELSE IF fn = "NullByte" THEN {0, 1, 255}
    ELSE IF fn = "NullString" THEN {"", "abc"}
    ELSE IF fn = "NullTime" THEN {ZeroTime, t}
    ELSE {-1, 0, 1}
Helper(fn, arg) ==
    IF fn = "NullBool" THEN NullBool(arg)
    ELSE IF fn = "NullByte" THEN NullByte(arg)
    ELSE IF fn = "NullFloat64" THEN NullFloat64(arg)
    ELSE IF fn = "NullInt16" THEN NullInt16(arg)
    ELSE IF fn = "NullInt32" THEN NullInt32(arg)
    ELSE IF fn = "NullInt64" THEN NullInt64(arg)
    ELSE IF fn = "NullString" THEN NullString(arg)
    ELSE NullTime(arg)
NoNull == [fn |-> "none", arg |-> FALSE, out |-> NullBool(FALSE)]

NewModel(e) ==
    [ID |-> IF ExecInsertable(e) THEN ExtraID ELSE NoID,
     CreatedAt |-> ZeroTime,
     UpdatedAt |-> ZeroTime,
     DeletedAt |-> NullTime(ZeroTime),
     Email |-> e]

SetID(m, id) == [m EXCEPT !.ID = id]
SetCreatedAt(m, t) == [m EXCEPT !.CreatedAt = t]
SetUpdatedAt(m, t) == [m EXCEPT !.UpdatedAt = t]
\* SetDeletedAt marking the model deleted whatever the time.
SetDeletedAtAlways(m, t) == [m EXCEPT !.DeletedAt = [Valid |-> TRUE, Time |-> t]]

SetDeletedAt(m, t) == [m EXCEPT !.DeletedAt = [Valid |-> t # ZeroTime, Time |-> t]]

\* ------------------------------------------------------------------ errors

Err(kind) == [kind |-> kind, got |-> 0, want |-> 0]
Nil == Err("nil")
ErrNoRows == Err("ErrNoRows")
ErrTxDone == Err("ErrTxDone")

IsErrNotFound(err) == err.kind = "ErrNoRows"
IsUniqueViolation(err) == err.kind = "23505"

\* RowsAffected testing for zero rows before it compares the counts.
RowsAffectedZeroFirst(res, n) ==
    IF res.err # Nil THEN res.err
    ELSE IF res.n = 0 THEN ErrNoRows
    ELSE IF res.n = n THEN Nil
    ELSE [kind |-> "mismatch", got |-> res.n, want |-> n]

\* RowsAffected answering sql.ErrNoRows for every count but the expected one.
RowsAffectedNoMismatch(res, n) ==
    IF res.err # Nil THEN res.err
    ELSE IF res.n = n THEN Nil
    ELSE ErrNoRows

\* RowsAffected(res, n): res is the driver's result, res.err the error of
\* res.RowsAffected() and res.n the count it reports.
RowsAffected(res, n) ==
    IF res.err # Nil THEN res.err
    ELSE IF res.n = n THEN Nil
    ELSE IF res.n = 0 THEN ErrNoRows
    ELSE [kind |-> "mismatch", got |-> res.n, want |-> n]

\* ------------------------------------------------------------- the backend

\* An instant is a number of microseconds below Sub, plus Sub times the digits
\* the clock reads below the microsecond.
Sub == 100

\* A timestamptz column keeps the microseconds of an instant.
Timestamptz(t) == t % Sub

RowOf(id, m) ==
    [id |-> id,
     created_at |-> Timestamptz(m.CreatedAt),
     updated_at |-> Timestamptz(m.UpdatedAt),
     deleted_at |-> NullTime(Timestamptz(m.DeletedAt.Time)),
     email |-> m.Email]

Ids(rows) == {r.id : r \in rows}

\* The primary key and the unique index on email.
UniqueViolation(rows, row) ==
    \E r \in rows : r.id = row.id \/ (row.email # NoEmail /\ r.email = row.email)

Out(err, rows, n, ids) == [err |-> err, rows |-> rows, n |-> n, ids |-> ids]

\* The insert template run on the rows a connection sees.  tmpl is the shape
\* of the template: "one" inserts the model's row, "nothing" does so with ON
\* CONFLICT DO NOTHING, "two" inserts a second row beside it.  g is the id the
\* store generates for that second row.
InsertStmt(rows, row, tmpl, g) ==
    IF row.id = NoID THEN Out(Err("exec"), rows, 0, <<>>)
    ELSE IF UniqueViolation(rows, row) THEN
        IF tmpl = "nothing" THEN Out(Nil, rows, 0, <<>>)
        ELSE Out(Err("23505"), rows, 0, <<>>)
    ELSE IF tmpl = "two" THEN
        Out(Nil, rows \cup {row, [row EXCEPT !.id = g, !.email = NoEmail]}, 2, <<row.id, g>>)
    ELSE Out(Nil, rows \cup {row}, 1, <<row.id>>)

\* The rows a template's WHERE clause selects: the row with the model's id,
\* every row when the template is "wide" (it does not restrict by id), and the
\* row with the model's id unless it is soft-deleted when the template is
\* "live" (it adds deleted_at IS NULL).
Target(rows, id, tmpl) ==
    IF tmpl = "wide" THEN rows
    ELSE IF tmpl = "live" THEN {r \in rows : r.id = id /\ ~r.deleted_at.Valid}
    ELSE {r \in rows : r.id = id}

\* An update template with a version check: the target rows are the ones the
\* model is newer than.
UpdateStmtIfNewer(rows, m, tmpl) ==
    LET hit == {r \in Target(rows, m.ID, tmpl) : r.updated_at < Timestamptz(m.UpdatedAt)}
    IN  Out(Nil, (rows \ hit) \cup {RowOf(r.id, m) : r \in hit}, Cardinality(hit), <<>>)

\* The update template: the columns of the target rows are set from the model
\* (a wide template sets the timestamp columns only).
UpdateStmt(rows, m, tmpl) ==
    LET hit == Target(rows, m.ID, tmpl)
        new(r) == IF tmpl = "wide"
                  THEN [r EXCEPT !.created_at = RowOf(r.id, m).created_at,
                                 !.updated_at = RowOf(r.id, m).updated_at,
                                 !.deleted_at = RowOf(r.id, m).deleted_at]
                  ELSE RowOf(r.id, m)
        rest == rows \ hit
    IN
    IF \E r \in hit : UniqueViolation(rest, new(r))
    THEN Out(Err("23505"), rows, 0, <<>>)
    ELSE Out(Nil, rest \cup {new(r) : r \in hit}, Cardinality(hit), <<>>)

\* The soft-delete template: deleted_at of the target rows is set to t.
DeleteStmt(rows, t, id, tmpl) ==
    LET hit == Target(rows, id, tmpl)
    IN  Out(Nil, (rows \ hit) \cup {[r EXCEPT !.deleted_at = NullTime(Timestamptz(t))] : r \in hit},
            Cardinality(hit), <<>>)

\* The hard-delete template: the target rows are removed.
HardDeleteStmt(rows, id, tmpl) ==
    LET hit == Target(rows, id, tmpl)
    IN  Out(Nil, rows \ hit, Cardinality(hit), <<>>)

\* ------------------------------------------------------------------- state

VARIABLES
    now,      \* the instant clock.Now() returns
    mem,      \* the models in the caller's memory
    store,    \* the committed rows of the table
    nextId,   \* the next id the store generates
    txs,      \* the backend transactions: the caller's Tx and InsertBatch's
    called,   \* the post-commit callbacks invoked so far, in order
    batch,    \* the position of the running InsertBatch call
    ops,      \* the number of calls made
    last,     \* the last call that returned, and what it returned
    ra,       \* the last RowsAffected call of the verifier specification
    sel,      \* the destination of the last Select, and what was selected
    opts,     \* the options the DB was created with
    peer,     \* another caller's copy of the personModel, and its Update call
    rb,       \* the last query Rebind or a model method prepared
    nul,      \* the last Null helper called, its argument and its result
    arr       \* the last array written to a column and scanned back

vars == <<now, mem, store, nextId, txs, called, batch, ops, last, ra, sel, nul, opts, peer, rb, arr>>

\* What the calls on the models of Ent leave alone.
aux == <<nul, opts, peer, rb, arr>>

TxId == {"tx", "batch"}
How == {"ok", "bind", "exec", "post"}

NoTx == [state |-> "none", failed |-> FALSE, touched |-> {}, rows |-> {}, oncommit |-> <<>>]
NewTx == [NoTx EXCEPT !.state = "open"]
\* A transaction that only a Commit finishes: no Rollback runs on an error.
FinishedByCommit(t, state) ==
    IF state = "committed" THEN [t EXCEPT !.state = state, !.touched = {}, !.rows = {}] ELSE t

\* The transaction after the Commit or the Rollback that finished it.
Finished(t, state) == [t EXCEPT !.state = state, !.touched = {}, !.rows = {}]

NoBatch == [pc |-> "idle", args |-> <<>>, i |-> 0, t0 |-> ZeroTime, err |-> Nil]
NoCall == [seq |-> 0, op |-> "none", ctx |-> "db", ent |-> "p1", err |-> Nil, n |-> 0]

\* An id no row has, as the one TestDBQueries/select asks for.
MissingID == 99

\* var pp personModel: the zero-valued destination of a Select.
ZeroModel ==
    [ID |-> NoID,
     CreatedAt |-> ZeroTime,
     UpdatedAt |-> ZeroTime,
     DeletedAt |-> NullTime(ZeroTime),
     Email |-> NoEmail]

NoSelect == [id |-> NoID, dest |-> ZeroModel]
NoRA == [calls |-> 0, got |-> 0, want |-> 0, fail |-> FALSE, err |-> Nil]

\* A model the caller inserted at instant 1 in an earlier run, and its row.
\* The store had generated id 1 for the personModel.
OldModel(e) ==
    [NewModel(e) EXCEPT !.ID = IF ExecInsertable(e) THEN ExtraID ELSE 1,
                        !.CreatedAt = 1, !.UpdatedAt = 1]

\* The cap on open connections when the caller sets none.
MaxOpenConnections == 100

\* newOptions: the options New starts from.  Clock stands for the digits the
\* clock reads below the microsecond: none for a clock of whole microseconds.
newOptions ==
    [Clock |-> 0,
     DriverName |-> "pgx/v5",
     RebindModel |-> FALSE,
     MaxOpenConnections |-> MaxOpenConnections]

\* The copy of the personModel another caller selected in the earlier run, and
\* gave its own email.
PeerModel(m) == [m EXCEPT !.Email = "peer"]
NoPeer(m) == [pc |-> "idle", m |-> PeerModel(m), err |-> Nil, n |-> 0]

\* No query prepared yet; tx is the doRebindModel of the caller's Tx.
NoRebind == [op |-> "none", ctx |-> "db", query |-> <<>>, sent |-> <<>>, tx |-> FALSE]
\* ------------------------------------------------------------- Array codec

\* The longest array written.
MaxLen == 2

\* The element types of the arrays of arrayModel, and a type the backend has
\* no array of (Array[arrayModel] in TestArray_Scan/scan fail).
ElemType == {"int", "string", "prefix"}
GoType == ElemType \cup {"arrayModel"}

\* The values of each element type, and the text the backend writes for them.
Digits == <<"1", "2">>
Elems(T) ==
    IF T = "int" THEN {1, 2}
    ELSE IF T = "string" THEN {"foo", "bar"}
    ELSE {"10.0.0.0/8", "2001:4f8:3:ba::/64"}

ElemText(T, v) == IF T = "int" THEN Digits[v] ELSE v

\* The text of an element as the decoder of T reads it.
Readable(T, text) == \E v \in Elems(T) : ElemText(T, v) = text
ElemValue(T, text) == CHOOSE v \in Elems(T) : ElemText(T, v) = text

\* A Go slice: nil, or a sequence that may be of length zero.
NilSlice == [nil |-> TRUE, elems |-> <<>>]

\* A slice made for the elements elems: not nil, even for none.
Slice(elems) == [nil |-> FALSE, elems |-> elems]

Slices(T) ==
    {NilSlice} \cup {Slice(q) : q \in UNION {[1..n -> Elems(T)] : n \in 0..MaxLen}}

\* The array literal of the backend: {} or {v1,v2,...}.
RECURSIVE Items(_)
Items(texts) ==
    IF texts = <<>> THEN <<>>
    ELSE IF Len(texts) = 1 THEN texts
    ELSE <<Head(texts), ",">> \o Items(Tail(texts))
Literal(T, elems) ==
    <<"{">> \o Items([i \in DOMAIN elems |-> ElemText(T, elems[i])]) \o <<"}">>

\* What the driver stores for an Array[T] argument: NULL for a nil slice,
\* the literal of its elements otherwise.
NullValue == [kind |-> "nil", text |-> <<>>]
Encoded(T, S) ==
    IF S.nil THEN NullValue ELSE [kind |-> "string", text |-> Literal(T, S.elems)]

\* The type identifiers: arrays of int4, int8, text, cidr and cid, and the
\* Go type each decodes into.
OIDs == {"Int4ArrayOID", "Int8ArrayOID", "TextArrayOID", "CIDRArrayOID", "CIDArrayOID"}
OIDType(oid) ==
    IF oid \in {"Int4ArrayOID", "Int8ArrayOID"} THEN "int"
    ELSE IF oid = "TextArrayOID" THEN "string"
    ELSE IF oid = "CIDRArrayOID" THEN "prefix"
    ELSE "cid"

\* A map that has an identifier for the array of every type.
TypeForValueAny(T) == [ok |-> TRUE, OID |-> "TextArrayOID"]

\* defaultMap.TypeForValue(pgtype.Array[T]{}): the identifier, if there is one.
TypeForValue(T) ==
    [ok |-> T \in ElemType,
     OID |-> IF T = "int" THEN "Int8ArrayOID"
             ELSE IF T = "string" THEN "TextArrayOID"
             ELSE "CIDRArrayOID"]

\* The element texts of a literal.
RECURSIVE Split(_)
Split(items) ==
    IF items = <<>> THEN <<>>
    ELSE <<Head(items)>> \o (IF Len(items) > 2 THEN Split(SubSeq(items, 3, Len(items))) ELSE <<>>)
WellFormed(text) ==
    /\ Len(text) >= 2
    /\ Head(text) = "{" /\ text[Len(text)] = "}"
    /\ LET items == SubSeq(text, 2, Len(text) - 1)
       IN  \A i \in DOMAIN items : (items[i] = ",") = (i % 2 = 0 /\ i < Len(items))

\* pgArray.Elements losing the difference between no elements and nil.
ElementsNilWhenEmpty(elems) == [nil |-> elems = <<>>, elems |-> elems]

\* pgArray.Elements of a decoded literal: a slice made for its elements.
Elements(elems) == Slice(elems)

\* A scan that reads the literal whatever the identifier says.
MapScanAnyOID(oid, text, T) ==
    IF ~WellFormed(text) THEN [err |-> Err("scan"), Elements |-> NilSlice]
    ELSE LET texts == Split(SubSeq(text, 2, Len(text) - 1))
         IN  IF \E i \in DOMAIN texts : ~Readable(T, texts[i])
             THEN [err |-> Err("scan"), Elements |-> NilSlice]
             ELSE [err |-> Nil,
                   Elements |-> Elements([i \in DOMAIN texts |-> ElemValue(T, texts[i])])]

\* defaultMap.Scan(oid, pgtype.TextFormatCode, v, &pgArray): the elements of
\* the literal, or an error for an identifier of another element type, text
\* that is no literal, or an element the decoder of T cannot read.
MapScan(oid, text, T) ==
    IF OIDType(oid) # T \/ ~WellFormed(text) THEN [err |-> Err("scan"), Elements |-> NilSlice]
    ELSE LET texts == Split(SubSeq(text, 2, Len(text) - 1))
         IN  IF \E i \in DOMAIN texts : ~Readable(T, texts[i])
             THEN [err |-> Err("scan"), Elements |-> NilSlice]
             ELSE [err |-> Nil,
                   Elements |-> Elements([i \in DOMAIN texts |-> ElemValue(T, texts[i])])]

\* ArrayScan decoding an absent source to a slice of length zero.
ArrayScanEmpty(oid, src, T, dest) ==
    IF src.kind = "nil" THEN [err |-> Nil, dest |-> Slice(<<>>)]
    ELSE IF src.kind \in {"bytes", "string"}
    THEN LET r == MapScan(oid, src.text, T)
         IN  [err |-> r.err, dest |-> IF r.err = Nil THEN r.Elements ELSE dest]
    ELSE [err |-> Err("unsupported type"), dest |-> dest]

\* ArrayScan[T](oid, src, &dest): nil for an absent source, the decoded
\* elements for bytes or a string, an error for anything else.
ArrayScan(oid, src, T, dest) ==
    IF src.kind = "nil" THEN [err |-> Nil, dest |-> NilSlice]
    ELSE IF src.kind \in {"bytes", "string"}
    THEN LET r == MapScan(oid, src.text, T)
         IN  [err |-> r.err, dest |-> IF r.err = Nil THEN r.Elements ELSE dest]
    ELSE [err |-> Err("unsupported type"), dest |-> dest]

\* Scan storing aa in the array before it looks at the error.
ScanAssignsFirst(T, src, a) ==
    IF ~TypeForValue(T).ok THEN [err |-> Err("cannot type"), dest |-> a]
    ELSE LET r == ArrayScan(TypeForValue(T).OID, src, T, NilSlice)
         IN  [err |-> r.err, dest |-> r.dest]

\* (*Array[T]).Scan(src) on the array a.
Scan(T, src, a) ==
    IF ~TypeForValue(T).ok THEN [err |-> Err("cannot type"), dest |-> a]
    ELSE LET r == ArrayScan(TypeForValue(T).OID, src, T, NilSlice)
         IN  IF r.err # Nil THEN [err |-> r.err, dest |-> a]
             ELSE [err |-> Nil, dest |-> r.dest]

NoArray ==
    [op |-> "none", T |-> "int", S |-> NilSlice, col |-> NullValue,
     oid |-> "Int4ArrayOID", src |-> NullValue, dest |-> NilSlice, err |-> Nil]

\* The state New(dataSourceName, opts...) leaves, and tx the caller's Tx.  The
\* database outlives the process: New connects to a table that already holds
\* the rows of the models in old.
Construct(o, tx) ==
    /\ now = 1
    /\ \E old \in SUBSET Ent :
         /\ mem = [e \in Ent |-> IF e \in old THEN OldModel(e) ELSE NewModel(e)]
         /\ store = {RowOf(OldModel(e).ID, OldModel(e)) : e \in old}
    /\ nextId = 2
    /\ txs = [t \in TxId |-> IF t = "tx" THEN tx ELSE NoTx]
    /\ opts = o
    /\ peer = NoPeer(OldModel("p1"))
    /\ rb = NoRebind
    /\ arr = NoArray
    /\ nul = NoNull
    /\ called = <<>>
    /\ batch = NoBatch
    /\ ops = 0
    /\ last = NoCall
    /\ ra = NoRA
    /\ sel = NoSelect

\* New with no option.
Init == Construct(newOptions, NoTx)

\* Every connection reading the committed rows only.
ViewCommitted(c) == store

\* The rows connection c sees: the committed rows, and for a transaction its
\* own pending writes over them.
View(c) ==
    IF c = "db" THEN store
    ELSE {r \in store : r.id \notin txs[c].touched} \cup txs[c].rows

ChangedIds(before, after) == Ids((before \ after) \cup (after \ before))

\* The unique keys transaction t holds through its pending writes.
TxEmails(t) == {r.email : r \in txs[t].rows \cup {s \in store : s.id \in txs[t].touched}}

\* A statement of connection c waits while another open transaction holds a
\* row it writes or a unique key it inserts (ins: the rows it tries to insert).
Blocked(c, res, ins) ==
    \E t \in TxId \ {c} :
        /\ txs[t].state = "open"
        /\ \/ ChangedIds(View(c), res.rows) \cap txs[t].touched # {}
           \/ \E r \in ins \cup (res.rows \ View(c)) :
                \/ r.id \in txs[t].touched
                \/ r.email # NoEmail /\ r.email \in TxEmails(t)

\* The statement reaches the backend and is run there.
Delivered(c, how) ==
    /\ how \notin {"bind", "exec"}
    /\ c = "db" \/ (txs[c].state = "open" /\ ~txs[c].failed)

BackendError(err) == err.kind \in {"exec", "23505", "25P02"}

\* What the backend answers when connection c sends a statement whose effect
\* on the rows it sees is res; how = "exec" is a statement the backend rejects.
Send(c, how, res) ==
    IF c # "db" /\ txs[c].state # "open" THEN Out(ErrTxDone, View(c), 0, <<>>)
    ELSE IF c # "db" /\ txs[c].failed THEN Out(Err("25P02"), View(c), 0, <<>>)
    ELSE IF how = "exec" THEN Out(Err("exec"), View(c), 0, <<>>)
    ELSE res

\* The pending writes of transaction t after a statement answered out.
Written(t, view, out) ==
    LET tt == t.touched \cup ChangedIds(view, out.rows)
    IN  [t EXCEPT !.touched = tt,
                  !.rows = {r \in out.rows : r.id \in tt},
                  !.failed = @ \/ BackendError(out.err)]

\* A transaction whose statements were durable at once, as on the DB.
EffectAutocommit(c, out) ==
    /\ store' = out.rows
    /\ txs' = txs

\* The statement's effect: durable at once on the DB, pending in a transaction.
Effect(c, out) ==
    IF c = "db" THEN store' = out.rows /\ txs' = txs
    ELSE /\ store' = store
         /\ txs' = [txs EXCEPT ![c] = IF @.state = "open" THEN Written(@, View(c), out) ELSE @]

\* The number of ids the store generated for the rows a statement added.
Generated(before, after) == Cardinality({i \in Ids(after) \ Ids(before) : i # ExtraID})

Returns(c, op, e, err, n) ==
    /\ ops' = ops + 1
    /\ last' = [seq |-> ops + 1, op |-> op, ctx |-> c, ent |-> e, err |-> err, n |-> n]

\* Begin giving the Tx a clock of its own, ahead of the clock of the DB.
ClockNowOwn(c) == (IF c = "db" THEN now ELSE now + 1) + Sub * opts.Clock

\* d.clock.Now() and t.clock.Now(): Begin hands the clock of the DB to the Tx.
ClockNow(c) == now + Sub * opts.Clock

\* A statement on the pool takes a connection; every open transaction holds
\* one until it ends.
InUse == Cardinality({t \in TxId : txs[t].state = "open"})

\* New leaving the pool without a limit.
ConnFreeAlways == TRUE

\* SetMaxOpenConns(n): a caller waits while n connections are in use; n <= 0
\* is no limit.
ConnFree == opts.MaxOpenConnections <= 0 \/ InUse < opts.MaxOpenConnections

\* Time passes between two steps.
Tick ==
    /\ ops < MaxOps
    /\ now' = now + 1
    /\ ops' = ops + 1
    /\ UNCHANGED <<mem, store, nextId, txs, called, batch, last, ra, sel, aux>>

\* ------------------------------------------------- DB and Tx, one statement

\* The error of res.RowsAffected(); the pgx driver never fails there.
ResultOf(how, out) == [err |-> IF how = "post" THEN Err("result") ELSE Nil, n |-> out.n]

\* insertWithExec returning after Exec, the count unverified.
insertWithExecUnverified(how, out) == out.err

\* insertWithExec: Exec, then RowsAffected(r, 1).
insertWithExec(how, out) ==
    IF out.err # Nil THEN out.err ELSE RowsAffected(ResultOf(how, out), 1)

\* row.Scan(&id) on the row QueryRow returned: the deferred error of the
\* statement, a failure to read the result, no row, or the first id.
ScanID(how, out) ==
    IF out.err # Nil THEN out.err
    ELSE IF how = "post" THEN Err("scan")
    ELSE IF out.ids = <<>> THEN ErrNoRows
    ELSE Nil

\* ExecContext, then RowsAffected(r, 0): no row expected.
ExecOneExpectsNone(how, out) ==
    IF out.err # Nil THEN out.err ELSE RowsAffected(ResultOf(how, out), 0)

\* ExecContext, then RowsAffected(r, 1) with sql.ErrNoRows taken for success.
ExecOneIdempotent(how, out) ==
    IF out.err # Nil THEN out.err
    ELSE IF RowsAffected(ResultOf(how, out), 1) = ErrNoRows THEN Nil
    ELSE RowsAffected(ResultOf(how, out), 1)

\* ExecContext returning its error, the count unverified.
ExecOneUnverified(how, out) == out.err

\* ExecContext, then RowsAffected(r, 1), as Update, Delete and HardDelete do.
ExecOne(how, out) ==
    IF out.err # Nil THEN out.err ELSE RowsAffected(ResultOf(how, out), 1)

\* Insert leaving the timestamps of the model alone.
InsertMemUnstamped(m, t0, exec, err, out) ==
    IF ~exec /\ err = Nil THEN SetID(m, out.ids[1]) ELSE m

\* Insert returning without the call of SetID.
InsertMemNoSetID(m, t0, exec, err, out) == SetUpdatedAt(SetCreatedAt(m, t0), t0)

\* Insert calling SetID with whatever id the statement returned, before it
\* looks at the error of Scan.
InsertMemEarlySetID(m, t0, exec, err, out) ==
    LET m1 == SetUpdatedAt(SetCreatedAt(m, t0), t0)
    IN  IF ~exec /\ out.ids # <<>> THEN SetID(m1, out.ids[1]) ELSE m1

\* The model after Insert: both timestamps are stamped before the template is
\* bound; SetID is called with the scanned id on the RETURNING path alone.
InsertMem(m, t0, exec, err, out) ==
    LET m1 == SetUpdatedAt(SetCreatedAt(m, t0), t0)
    IN  IF ~exec /\ err = Nil THEN SetID(m1, out.ids[1]) ELSE m1

\* Insert returning an error of its own in place of the statement's.
InsertErrOpaque(exec, how, out) ==
    IF how = "bind" THEN Err("bind")
    ELSE IF out.err # Nil THEN Err("insert")
    ELSE IF exec THEN insertWithExec(how, out)
    ELSE ScanID(how, out)

\* The error Insert returns: BindNamed's, insertWithExec's or Scan's, as it is.
InsertErr(exec, how, out) ==
    IF how = "bind" THEN Err("bind")
    ELSE IF exec THEN insertWithExec(how, out)
    ELSE ScanID(how, out)

\* The insert template bound before the model is stamped.
InsertRowBeforeStamp(m, t0, exec) == RowOf(IF exec THEN m.ID ELSE nextId, m)

\* The row the insert template binds from the stamped model.  The RETURNING
\* template leaves the id to the store; the exec template binds the model's.
InsertRow(m, t0, exec) ==
    LET m1 == SetUpdatedAt(SetCreatedAt(m, t0), t0)
    IN  RowOf(IF exec THEN m1.ID ELSE nextId, m1)

\* One Insert of model e on connection c, stamping t0: the statement's
\* answer, the error returned and the model afterwards.
InsertCall(c, e, t0, tmpl, how) ==
    LET exec == ExecInsertable(e)
        row == InsertRow(mem[e], t0, exec)
        res == InsertStmt(View(c), row, tmpl, IF exec THEN nextId ELSE nextId + 1)
        out == IF how = "bind" THEN Out(Nil, View(c), 0, <<>>) ELSE Send(c, how, res)
        err == InsertErr(exec, how, out)
    IN  [err |-> err, out |-> out, m |-> InsertMem(mem[e], t0, exec, err, out),
         waits |-> Delivered(c, how) /\ Blocked(c, res, {row})]

InsertOn(c, e, t0, tmpl, how) ==
    LET r == InsertCall(c, e, t0, tmpl, how)
    IN  /\ ~r.waits
        /\ mem' = [mem EXCEPT ![e] = r.m]
        /\ Effect(c, r.out)
        /\ nextId' = nextId + Generated(View(c), r.out.rows)
        /\ Returns(c, "Insert", e, r.err, r.out.n)

\* Update stamping the created timestamp as Insert does.
UpdateMemBoth(m, t) == SetUpdatedAt(SetCreatedAt(m, t), t)

\* The model after Update: arg.SetUpdatedAt(d.clock.Now()), whatever follows.
UpdateMem(m, t) == SetUpdatedAt(m, t)

\* One Update of model m on connection c: the statement's answer, the error
\* returned and the model afterwards.
UpdateCall(c, m, tmpl, how) ==
    LET m1 == UpdateMem(m, ClockNow(c))
        res == UpdateStmt(View(c), m1, tmpl)
        out == IF how = "bind" THEN Out(Nil, View(c), 0, <<>>) ELSE Send(c, how, res)
        err == IF how = "bind" THEN Err("bind") ELSE ExecOne(how, out)
    IN  [err |-> err, out |-> out, m |-> m1,
         waits |-> Delivered(c, how) /\ Blocked(c, res, {})]

\* An Update whose statement is undone when the count check fails.
UpdateOnUndone(c, e, tmpl, how) ==
    LET r == UpdateCall(c, mem[e], tmpl, how)
    IN  /\ ~r.waits
        /\ mem' = [mem EXCEPT ![e] = r.m]
        /\ Effect(c, IF r.err = Nil THEN r.out ELSE Out(r.err, View(c), 0, <<>>))
        /\ Returns(c, "Update", e, r.err, r.out.n)
        /\ UNCHANGED nextId

UpdateOn(c, e, tmpl, how) ==
    LET r == UpdateCall(c, mem[e], tmpl, how)
    IN  /\ ~r.waits
        /\ mem' = [mem EXCEPT ![e] = r.m]
        /\ Effect(c, r.out)
        /\ Returns(c, "Update", e, r.err, r.out.n)
        /\ UNCHANGED nextId

\* Delete returning without the call of SetDeletedAt.
DeleteMemNever(m, t0, err) == m

\* Delete calling SetDeletedAt before it looks at the error.
DeleteMemAlways(m, t0, err) == SetDeletedAt(m, t0)

\* The model after Delete: SetDeletedAt(t0) once RowsAffected found one row.
DeleteMem(m, t0, err) == IF err = Nil THEN SetDeletedAt(m, t0) ELSE m

\* Delete sending a zero time.Time in place of t0.
DeleteArgZero(t0) == ZeroTime

\* The first argument of the delete template: t0.
DeleteArg(t0) == t0

\* One Delete of model m on connection c.
DeleteCall(c, m, tmpl, how) ==
    LET t0 == ClockNow(c)
        res == DeleteStmt(View(c), DeleteArg(t0), m.ID, tmpl)
        out == Send(c, how, res)
        err == ExecOne(how, out)
    IN  [err |-> err, out |-> out, m |-> DeleteMem(m, t0, err),
         waits |-> Delivered(c, how) /\ Blocked(c, res, {})]

DeleteOn(c, e, tmpl, how) ==
    LET r == DeleteCall(c, mem[e], tmpl, how)
    IN  /\ ~r.waits
        /\ mem' = [mem EXCEPT ![e] = r.m]
        /\ Effect(c, r.out)
        /\ Returns(c, "Delete", e, r.err, r.out.n)
        /\ UNCHANGED nextId

\* Only a ModelWithHardDelete can be passed to HardDelete.
HardDeletable(e) == e = "p4"

\* One HardDelete of model m on connection c.
HardDeleteCall(c, m, tmpl, how) ==
    LET res == HardDeleteStmt(View(c), m.ID, tmpl)
        out == Send(c, how, res)
        err == ExecOne(how, out)
    IN  [err |-> err, out |-> out, m |-> m,
         waits |-> Delivered(c, how) /\ Blocked(c, res, {})]

HardDeleteOn(c, e, tmpl, how) ==
    LET r == HardDeleteCall(c, mem[e], tmpl, how)
    IN  /\ HardDeletable(e)
        /\ ~r.waits
        /\ Effect(c, r.out)
        /\ Returns(c, "HardDelete", e, r.err, r.out.n)
        /\ UNCHANGED <<mem, nextId>>

\* Exec of a caller's statement; the one of the tests is DELETE FROM person_test.
ExecOn(c, how) ==
    LET res == HardDeleteStmt(View(c), NoID, "wide")
        out == Send(c, how, res)
    IN  /\ Delivered(c, how) => ~Blocked(c, res, {})
        /\ Effect(c, out)
        /\ Returns(c, "Exec", "p1", out.err, out.n)
        /\ UNCHANGED <<mem, nextId>>

\* sqlx's StructScan of the selected row into the destination.
StructScan(dest, r) ==
    [ID |-> r.id,
     CreatedAt |-> r.created_at,
     UpdatedAt |-> r.updated_at,
     DeletedAt |-> r.deleted_at,
     Email |-> r.email]

\* The error of GetContext: the statement's, sql.ErrNoRows when it selected no
\* row, or none.
SelectErr(out, hit) ==
    IF out.err # Nil THEN out.err
    ELSE IF hit = {} THEN ErrNoRows
    ELSE Nil

\* GetContext clearing the destination before it looks for a row.
SelectDestCleared(dest, err, hit) ==
    IF err = Nil THEN StructScan(dest, CHOOSE r \in hit : TRUE) ELSE ZeroModel

\* The destination after GetContext: scanned into when a row was selected.
SelectDest(dest, err, hit) ==
    IF err = Nil THEN StructScan(dest, CHOOSE r \in hit : TRUE) ELSE dest

\* The ids a caller selects by: the id of one of its models, or MissingID when
\* who is not a model.
SelectID(who) == IF who \in Ent THEN mem[who].ID ELSE MissingID

\* Select by id on connection c, into a new zero-valued destination or, when
\* fresh is FALSE, into the destination of the Select before.
SelectCall(c, id, dest, tmpl, how) ==
    LET hit == Target(View(c), id, tmpl)
        out == Send(c, how, Out(Nil, View(c), Cardinality(hit), <<>>))
        err == SelectErr(out, hit)
    IN  [err |-> err, out |-> out, dest |-> SelectDest(dest, err, hit)]

SelectOn(c, who, tmpl, how, fresh) ==
    LET id == SelectID(who)
        r == SelectCall(c, id, IF fresh THEN ZeroModel ELSE sel.dest, tmpl, how)
    IN  /\ sel' = [id |-> id, dest |-> r.dest]
        /\ Effect(c, r.out)
        /\ Returns(c, "Select", who, r.err, r.out.n)
        /\ UNCHANGED <<mem, nextId>>

DBSelect(who, tmpl, how, fresh) ==
    /\ ops < MaxOps
    /\ ConnFree
    /\ SelectOn("db", who, tmpl, how, fresh)
    /\ UNCHANGED <<now, called, batch, ra, aux>>

DBInsert(e, tmpl, how) ==
    /\ ops < MaxOps
    /\ ConnFree
    /\ InsertOn("db", e, ClockNow("db"), tmpl, how)
    /\ UNCHANGED <<now, called, batch, ra, sel, aux>>

DBUpdate(e, tmpl, how) ==
    /\ ops < MaxOps
    /\ ConnFree
    /\ UpdateOn("db", e, tmpl, how)
    /\ UNCHANGED <<now, called, batch, ra, sel, aux>>

DBDelete(e, tmpl, how) ==
    /\ ops < MaxOps
    /\ ConnFree
    /\ DeleteOn("db", e, tmpl, how)
    /\ UNCHANGED <<now, called, batch, ra, sel, aux>>

DBHardDelete(e, tmpl, how) ==
    /\ ops < MaxOps
    /\ ConnFree
    /\ HardDeleteOn("db", e, tmpl, how)
    /\ UNCHANGED <<now, called, batch, ra, sel, aux>>

DBExec(how) ==
    /\ ops < MaxOps
    /\ ConnFree
    /\ ExecOn("db", how)
    /\ UNCHANGED <<now, called, batch, ra, sel, aux>>

\* ---------------------------------------------------------- DB.InsertBatch

Batches == UNION {[1..k -> Ent] : k \in 0..MaxBatch}

\* t0 := d.clock.Now() and BeginTxx.
InsertBatchBegin(args, how) ==
    /\ ops < MaxOps
    /\ ConnFree
    /\ batch.pc # "loop"
    /\ ops' = ops + 1
    /\ IF how = "ok"
       THEN /\ batch' = [pc |-> "loop", args |-> args, i |-> 1, t0 |-> ClockNow("db"), err |-> Nil]
            /\ txs' = [txs EXCEPT !["batch"] = NewTx]
            /\ last' = last
       ELSE /\ batch' = [pc |-> "done", args |-> args, i |-> 1, t0 |-> ClockNow("db"), err |-> Err("begin")]
            /\ txs' = txs
            /\ last' = [seq |-> ops + 1, op |-> "InsertBatch", ctx |-> "db", ent |-> "p1",
                        err |-> Err("begin"), n |-> 0]
    /\ UNCHANGED <<now, mem, store, nextId, called, ra, sel, aux>>

\* The loop running the templates on the pool instead of the transaction.
BatchConnPool == "db"

\* The connection the loop binds and runs the insert templates on: tx.
BatchConn == "batch"

\* The loop going on to the next model after an error, the first error kept
\* for the end.
BatchAfterContinue(b, err) ==
    [b EXCEPT !.i = @ + 1, !.err = IF @ = Nil THEN err ELSE @]

\* The position of the call after the insert of args[i] answered err: return
\* err, or go on with the next model.
BatchAfter(b, err) ==
    IF err = Nil THEN [b EXCEPT !.i = @ + 1]
    ELSE [b EXCEPT !.pc = "done", !.err = err]

\* The instant the loop stamps every model with being read anew for each.
BatchTimeNow(b) == ClockNow("db")

\* The instant the loop stamps every model with: t0.
BatchTime(b) == b.t0

\* One iteration of the loop over args; an error returns from the call, and
\* the deferred tx.Rollback() then ends the transaction.
InsertBatchStep(tmpl, how) ==
    /\ ops < MaxOps
    /\ batch.pc = "loop"
    /\ batch.i <= Len(batch.args)
    /\ LET e == batch.args[batch.i]
           c == BatchConn
           r == InsertCall(c, e, BatchTime(batch), tmpl, how)
       IN  /\ ~r.waits
           /\ mem' = [mem EXCEPT ![e] = r.m]
           /\ nextId' = nextId + Generated(View(c), r.out.rows)
           /\ store' = IF c = "db" THEN r.out.rows ELSE store
           /\ txs' = [txs EXCEPT !["batch"] =
                        IF r.err # Nil THEN Finished(@, "rolledback")
                        ELSE IF c = "db" THEN @
                        ELSE Written(@, View(c), r.out)]
           /\ batch' = BatchAfter(batch, r.err)
           /\ IF r.err = Nil
              THEN last' = last
              ELSE last' = [seq |-> ops + 1, op |-> "InsertBatch", ctx |-> "db", ent |-> e,
                               err |-> r.err, n |-> r.out.n]
    /\ ops' = ops + 1
    /\ UNCHANGED <<now, called, ra, sel, aux>>

\* A Commit that a finished transaction answers like an open one.
CommitErrAgain(t, how) ==
    IF t.failed THEN Err("commit-rollback")
    ELSE IF how = "fail" THEN Err("commit")
    ELSE Nil

\* tx.Commit() of the backend transaction t: a transaction already finished
\* answers ErrTxDone, one a statement failed in is rolled back by the backend,
\* and how = "fail" is a commit the backend could not perform.
CommitErr(t, how) ==
    IF t.state # "open" THEN ErrTxDone
    ELSE IF t.failed THEN Err("commit-rollback")
    ELSE IF how = "fail" THEN Err("commit")
    ELSE Nil

\* return tx.Commit(), once every model was inserted.
InsertBatchCommit(how) ==
    /\ batch.pc = "loop"
    /\ batch.i > Len(batch.args)
    /\ LET err == CommitErr(txs["batch"], how)
       IN  /\ store' = IF err = Nil THEN View("batch") ELSE store
           /\ txs' = [txs EXCEPT !["batch"] = Finished(@, IF err = Nil THEN "committed" ELSE "rolledback")]
           /\ batch' = [batch EXCEPT !.pc = "done", !.err = err]
           /\ last' = [seq |-> ops, op |-> "InsertBatch", ctx |-> "db", ent |-> "p1",
                       err |-> err, n |-> 0]
    /\ UNCHANGED <<now, mem, nextId, called, ops, ra, sel, aux>>

\* ---------------------------------------------------------------------- Tx

\* DB.Begin: a new Tx, with no callback registered.
Begin(how) ==
    /\ ops < MaxOps
    /\ ConnFree
    /\ txs["tx"].state # "open"
    /\ IF how = "ok"
       THEN txs' = [txs EXCEPT !["tx"] = NewTx] /\ called' = <<>>
       ELSE txs' = txs /\ called' = called
    /\ Returns("db", "Begin", "p1", IF how = "ok" THEN Nil ELSE Err("begin"), 0)
    /\ rb' = IF how = "ok" THEN [rb EXCEPT !.tx = opts.RebindModel] ELSE rb
    /\ UNCHANGED <<now, mem, store, nextId, batch, ra, sel, nul, opts, peer, arr>>

\* Commit running the callbacks before it looks at the error.
CommitCallsAlways(err, oncommit, log) == log \o oncommit

\* The callbacks invoked once t.tx.Commit() returned err.
CommitCalls(err, oncommit, log) == IF err = Nil THEN log \o oncommit ELSE log

TxCommit(how) ==
    LET t == txs["tx"]
        err == CommitErr(t, how)
    IN  /\ ops < MaxOps
        /\ t.state # "none"
        /\ store' = IF err = Nil THEN View("tx") ELSE store
        /\ txs' = [txs EXCEPT !["tx"] =
                     IF t.state # "open" THEN @
                     ELSE Finished(@, IF err = Nil THEN "committed" ELSE "rolledback")]
        /\ called' = CommitCalls(err, t.oncommit, called)
        /\ Returns("tx", "Commit", "p1", err, 0)
        /\ UNCHANGED <<now, mem, nextId, batch, ra, sel, aux>>

\* PostCommit appends fn to t.oncommit; a callback is named by the number of
\* its registration on the Tx.
PostCommit ==
    /\ txs["tx"].state # "none"
    /\ Len(txs["tx"].oncommit) < MaxCallbacks
    /\ txs' = [txs EXCEPT !["tx"].oncommit = Append(@, Len(@) + 1)]
    /\ UNCHANGED <<now, mem, store, nextId, called, batch, ops, last, ra, sel, aux>>

\* Rollback committing the pending writes.
RollbackStoreCommits(t, rows) == {r \in rows : r.id \notin t.touched} \cup t.rows

\* Rollback running the callbacks.
RollbackCallsAll(oncommit, log) == log \o oncommit

\* The rows committed after t.tx.Rollback() and the callbacks invoked by it.
RollbackStore(t, rows) == rows
RollbackCalls(oncommit, log) == log

\* Rollback dropping the error of t.tx.Rollback().
RollbackErrDropped(t) == Nil

\* The error of t.tx.Rollback(): sql.ErrTxDone once the Tx was committed or
\* rolled back.
RollbackErr(t) == IF t.state = "open" THEN Nil ELSE ErrTxDone

TxRollback ==
    LET t == txs["tx"]
    IN  /\ ops < MaxOps
        /\ t.state # "none"
        /\ store' = RollbackStore(t, store)
        /\ txs' = [txs EXCEPT !["tx"] = IF t.state = "open" THEN Finished(@, "rolledback") ELSE @]
        /\ called' = RollbackCalls(t.oncommit, called)
        /\ Returns("tx", "Rollback", "p1", RollbackErr(t), 0)
        /\ UNCHANGED <<now, mem, nextId, batch, ra, sel, aux>>

TxSelect(who, tmpl, how, fresh) ==
    /\ ops < MaxOps
    /\ txs["tx"].state # "none"
    /\ SelectOn("tx", who, tmpl, how, fresh)
    /\ UNCHANGED <<now, called, batch, ra, aux>>

TxInsert(e, tmpl, how) ==
    /\ ops < MaxOps
    /\ txs["tx"].state # "none"
    /\ InsertOn("tx", e, ClockNow("tx"), tmpl, how)
    /\ UNCHANGED <<now, called, batch, ra, sel, aux>>

TxUpdate(e, tmpl, how) ==
    /\ ops < MaxOps
    /\ txs["tx"].state # "none"
    /\ UpdateOn("tx", e, tmpl, how)
    /\ UNCHANGED <<now, called, batch, ra, sel, aux>>

TxDelete(e, tmpl, how) ==
    /\ ops < MaxOps
    /\ txs["tx"].state # "none"
    /\ DeleteOn("tx", e, tmpl, how)
    /\ UNCHANGED <<now, called, batch, ra, sel, aux>>

TxHardDelete(e, tmpl, how) ==
    /\ ops < MaxOps
    /\ txs["tx"].state # "none"
    /\ HardDeleteOn("tx", e, tmpl, how)
    /\ UNCHANGED <<now, called, batch, ra, sel, aux>>

TxExec(how) ==
    /\ ops < MaxOps
    /\ txs["tx"].state # "none"
    /\ ExecOn("tx", how)
    /\ UNCHANGED <<now, called, batch, ra, sel, aux>>

\* ----------------------------------------------------------- specification

\* The inputs of a call: the shape of the model's template and how the
\* statement fares.  A template's shape only shows when the statement is run.
InsertTmpl == {"one", "nothing", "two"}
WhereTmpl == {"id", "wide"}
InsertIn == {<<"one", how>> : how \in How} \cup {<<tmpl, "ok">> : tmpl \in InsertTmpl}
UpdateIn == {<<"id", how>> : how \in How} \cup {<<tmpl, "ok">> : tmpl \in WhereTmpl}
DeleteIn == {in \in UpdateIn : in[2] # "bind"}

\* A select template either filters the soft-deleted rows or does not.
SelectTmpl == {"id", "live"}
SelectIn == {<<"id", "ok">>, <<"live", "ok">>, <<"live", "exec">>}
DBSelectStep ==
    \E who \in Ent \cup {"nobody"}, in \in SelectIn, fresh \in BOOLEAN :
        DBSelect(who, in[1], in[2], fresh)
TxSelectStep ==
    \E who \in Ent \cup {"nobody"}, in \in SelectIn, fresh \in BOOLEAN :
        TxSelect(who, in[1], in[2], fresh)

DBInsertStep == \E e \in Ent, in \in InsertIn : DBInsert(e, in[1], in[2])

DBStep ==
    \/ DBInsertStep
    \/ \E e \in Ent, in \in UpdateIn : DBUpdate(e, in[1], in[2])
    \/ \E e \in Ent, in \in DeleteIn : DBDelete(e, in[1], in[2])
    \/ \E e \in Ent, in \in DeleteIn : DBHardDelete(e, in[1], in[2])
    \/ \E how \in {"ok", "exec"} : DBExec(how)

BatchStep ==
    \/ \E args \in Batches, how \in {"ok", "fail"} : InsertBatchBegin(args, how)
    \/ \E in \in InsertIn : InsertBatchStep(in[1], in[2])
    \/ \E how \in {"ok", "fail"} : InsertBatchCommit(how)

TxEndStep ==
    \/ \E how \in {"ok", "fail"} : Begin(how)
    \/ \E how \in {"ok", "fail"} : TxCommit(how)
    \/ TxRollback

TxInsertStep == \E e \in Ent, in \in InsertIn : TxInsert(e, in[1], in[2])

TxWriteStep ==
    \/ TxInsertStep
    \/ \E e \in Ent, in \in UpdateIn : TxUpdate(e, in[1], in[2])
    \/ \E e \in Ent, in \in DeleteIn : TxDelete(e, in[1], in[2])
    \/ \E e \in Ent, in \in DeleteIn : TxHardDelete(e, in[1], in[2])
    \/ \E how \in {"ok", "exec"} : TxExec(how)

Next ==
    \/ Tick \/ DBStep \/ BatchStep \/ TxEndStep \/ PostCommit \/ TxWriteStep
    \/ DBSelectStep \/ TxSelectStep

\* The row-count verifier on its own: RowsAffected(res, n) for a result that
\* reports got rows, or fails to report them.
RowsAffectedCall(got, want, fail) ==
    /\ ra' = [calls |-> 1, got |-> got, want |-> want, fail |-> fail,
              err |-> RowsAffected([err |-> IF fail THEN Err("result") ELSE Nil, n |-> got], want)]
    /\ UNCHANGED <<now, mem, store, nextId, txs, called, batch, ops, last, sel, aux>>

NextRowsAffected == \E got \in 0..MaxRows, want \in 0..MaxRows, fail \in BOOLEAN : RowsAffectedCall(got, want, fail)
SpecRowsAffected == Init /\ [][NextRowsAffected]_vars

\* Every call, on one DB with one Tx and one InsertBatch at a time.
Spec == Init /\ [][Next]_vars

\* The calls on the DB alone.
NextDB == Tick \/ DBStep
SpecDB == Init /\ [][NextDB]_vars

\* InsertBatch beside single inserts on the DB.
NextBatch == Tick \/ DBInsertStep \/ BatchStep
SpecBatch == Init /\ [][NextBatch]_vars

\* One Tx at a time, from Begin to Commit or Rollback.
NextTx == Tick \/ TxEndStep \/ PostCommit \/ TxWriteStep
SpecTx == Init /\ [][NextTx]_vars

\* The life of a Tx the caller has begun.
InitTx == Construct(newOptions, NewTx)
SpecTxOpen == InitTx /\ [][NextTx]_vars

\* Models written and selected back by one caller, one call at a time, with
\* a clock of whole microseconds or one that reads nanoseconds.
InitClock == \E d \in {0, 1} : Construct([newOptions EXCEPT !.Clock = d], NoTx)
DBRoundTripStep ==
    /\ batch.pc # "loop"
    /\ \/ DBInsertStep
       \/ \E e \in Ent, tmpl \in SelectTmpl : DBSelect(e, tmpl, "ok", TRUE)
       \/ \E e \in Ent, how \in {"ok", "exec"} : DBUpdate(e, "id", how)
NextRoundTrip == Tick \/ BatchStep \/ DBRoundTripStep
SpecRoundTrip == InitClock /\ [][NextRoundTrip]_vars

\* ------------------------------------------------------------------ Rebind

\* The longest query rebound.
MaxQuery == 3

\* The characters of a query: a positional marker, a named parameter as
\* BindNamed reads it, and text.
Char == {"?", ":", "a"}
Queries == UNION {[1..n -> Char] : n \in 0..MaxQuery}

\* The shapes of the templates a query builder writes for a model: markers
\* of the driver already (text here), positional markers as with
\* qb.BindType(qb.QUESTION), named parameters, and both.
Templates ==
    {<<"a">>, <<"a", "?">>, <<"?", "a", "?">>, <<":", "a", ":">>, <<":", "?", "a">>}

Numeral == <<"1", "2", "3", "4", "5", "6", "7", "8", "9">>

\* Every marker written as the first one.
MarkerUnnumbered(j) == <<"$", Numeral[1]>>

\* The j-th marker of the pgx/v5 driver: $j.
Marker(j) == <<"$", Numeral[j]>>

\* The query with the markers from the j-th on put for the characters ch, from
\* left to right, and the rest of the text as it is.
RECURSIVE BindFrom(_, _, _)
BindFrom(query, ch, j) ==
    IF \A i \in DOMAIN query : query[i] # ch THEN query
    ELSE LET i == CHOOSE k \in DOMAIN query :
                      query[k] = ch /\ \A l \in 1..(k - 1) : query[l] # ch
         IN  SubSeq(query, 1, i - 1) \o Marker(j)
                \o BindFrom(SubSeq(query, i + 1, Len(query)), ch, j + 1)

\* DB.Rebind and Tx.Rebind with the pgx/v5 driver New connects with.
Rebind(query) == BindFrom(query, "?", 1)

\* The query BindNamed compiles for Insert and Update: the named parameters
\* become the driver's markers.
BindNamed(query) == BindFrom(query, ":", 1)

\* doRebindModel of the DB, and of the Tx as Begin copied it.
doRebindModel(c) == IF c = "db" THEN opts.RebindModel ELSE rb.tx

\* rebindModel rebinding whatever the option says.
rebindModelAlways(c, query) == Rebind(query)

\* rebindModel: the template rebound when WithRebindModel was given.
rebindModel(c, query) == IF doRebindModel(c) THEN Rebind(query) ELSE query

\* The query a method of the model hands to the driver for template query.
QuerySent(c, op, query) ==
    IF op \in {"Select", "Delete", "HardDelete"} THEN rebindModel(c, query)
    ELSE BindNamed(query)

\* Rebind(query) on the DB or on the caller's Tx.
RebindCall(c, query) ==
    /\ c = "tx" => txs["tx"].state # "none"
    /\ rb' = [rb EXCEPT !.op = "Rebind", !.ctx = c, !.query = query, !.sent = Rebind(query)]
    /\ UNCHANGED <<now, mem, store, nextId, txs, called, batch, ops, last, ra, sel, nul, opts, peer, arr>>

\* A method of the model on the DB or on the caller's Tx, up to the query it
\* hands to the driver.
ModelQuery(c, op, query) ==
    /\ c = "tx" => txs["tx"].state # "none"
    /\ rb' = [rb EXCEPT !.op = op, !.ctx = c, !.query = query, !.sent = QuerySent(c, op, query)]
    /\ UNCHANGED <<now, mem, store, nextId, txs, called, batch, ops, last, ra, sel, nul, opts, peer, arr>>

\* New with or without WithRebindModel.
InitRebind ==
    \E f \in BOOLEAN : Construct([newOptions EXCEPT !.RebindModel = f], NoTx)
NextRebind ==
    \/ Begin("ok")
    \/ TxRollback
    \/ \E c \in {"db", "tx"}, query \in Queries : RebindCall(c, query)
    \/ \E c \in {"db", "tx"}, query \in Templates,
          op \in {"Select", "Insert", "Update", "Delete", "HardDelete"} :
            ModelQuery(c, op, query)
SpecRebind == InitRebind /\ [][NextRebind]_vars

\* ------------------------------------------------------------------- Array

\* The sources a Scan may be handed: nothing, the text of a column as bytes
\* or as a string (a literal of each element type, the empty literal and
\* text that is no literal), and a value of another type.
Sources ==
    {NullValue, [kind |-> "other", text |-> <<>>]}
    \cup {[kind |-> k, text |-> t] :
            k \in {"bytes", "string"},
            t \in {<<"1">>, <<"{", "}">>, <<"{", "1", ",", "2", "}">>,
                   <<"{", "foo", ",", "bar", "}">>, <<"{", "10.0.0.0/8", "}">>}}

\* Insert of a model with the array S of element type T in a column.
ArrayInsert(T, S) ==
    /\ arr' = [NoArray EXCEPT !.op = "Insert", !.T = T, !.S = S, !.col = Encoded(T, S),
                          !.dest = NilSlice, !.err = Nil]
    /\ UNCHANGED <<now, mem, store, nextId, txs, called, batch, ops, last, ra, sel, nul, opts, peer, rb>>

\* Select of that model into a zero-valued destination: the driver hands the
\* column to Scan, absent or as a string.
ArraySelect ==
    LET r == Scan(arr.T, arr.col, NilSlice)
    IN  /\ arr.op = "Insert"
        /\ arr' = [arr EXCEPT !.op = "Select", !.src = arr.col, !.oid = TypeForValue(arr.T).OID,
                              !.dest = r.dest, !.err = r.err]
        /\ UNCHANGED <<now, mem, store, nextId, txs, called, batch, ops, last, ra, sel, nul, opts, peer, rb>>

\* ArrayScan[T](oid, src, &dest) called directly.
ArrayScanCall(oid, src, T, dest) ==
    LET r == ArrayScan(oid, src, T, dest)
    IN  /\ arr' = [NoArray EXCEPT !.op = "ArrayScan", !.T = T, !.S = dest, !.oid = oid, !.src = src,
                              !.dest = r.dest, !.err = r.err]
        /\ UNCHANGED <<now, mem, store, nextId, txs, called, batch, ops, last, ra, sel, nul, opts, peer, rb>>

\* a.Scan(src) called directly on an Array[T].
ScanCall(T, src, a) ==
    LET r == Scan(T, src, a)
    IN  /\ arr' = [NoArray EXCEPT !.op = "Scan", !.T = T, !.S = a, !.src = src,
                              !.oid = TypeForValue(T).OID, !.dest = r.dest, !.err = r.err]
        /\ UNCHANGED <<now, mem, store, nextId, txs, called, batch, ops, last, ra, sel, nul, opts, peer, rb>>

NextArray ==
    \/ \E T \in ElemType : \E S \in Slices(T) : ArrayInsert(T, S)
    \/ ArraySelect
    \/ \E oid \in OIDs, src \in Sources, T \in ElemType, dest \in {NilSlice, Slice(<<>>)} :
            ArrayScanCall(oid, src, T, dest)
    \/ \E T \in GoType, src \in Sources, a \in {NilSlice, Slice(<<>>)} : ScanCall(T, src, a)
SpecArray == Init /\ [][NextArray]_vars

\* Writes and reads on a Tx that is open, its Commit, and reads on the DB.
NextTxRead ==
    \/ Tick
    \/ \E e \in Ent : TxInsert(e, "one", "ok")
    \/ \E e \in Ent, how \in {"ok", "exec"} : TxUpdate(e, "id", how)
    \/ \E e \in Ent : TxDelete(e, "id", "ok")
    \/ \E e \in Ent : TxSelect(e, "id", "ok", TRUE)
    \/ \E e \in Ent : DBSelect(e, "id", "ok", TRUE)
    \/ \E how \in {"ok", "fail"} : TxCommit(how)
SpecTxRead == InitTx /\ [][NextTxRead]_vars

\* ---------------------------------------------------- Base and the helpers

\* m.SetDeletedAt(t) called by the owner of the model, with the zero time or
\* the time of the clock.
SetDeletedAtCall(e, t) ==
    /\ mem' = [mem EXCEPT ![e] = SetDeletedAt(@, t)]
    /\ UNCHANGED <<now, store, nextId, txs, called, batch, ops, last, ra, sel, aux>>

\* One call of a Null helper.
HelperCall(fn, arg) ==
    /\ nul' = [fn |-> fn, arg |-> arg, out |-> Helper(fn, arg)]
    /\ UNCHANGED <<now, mem, store, nextId, txs, called, batch, ops, last, ra, sel, opts, peer, rb, arr>>

NextHelpers ==
    \/ Tick
    \/ \E e \in Ent, how \in {"ok", "exec"} : DBDelete(e, "id", how)
    \/ \E e \in Ent, t \in {ZeroTime, ClockNow("db")} : SetDeletedAtCall(e, t)
    \/ \E fn \in Helpers : \E arg \in HelperArgs(fn, ClockNow("db")) : HelperCall(fn, arg)
SpecHelpers == InitClock /\ [][NextHelpers]_vars

\* DB.Update of another caller, on its own copy of the personModel, up to the
\* statement it is about to send: SetUpdatedAt and BindNamed.
PeerUpdateBind(how) ==
    /\ ops < MaxOps
    /\ peer.pc = "idle"
    /\ peer' = [peer EXCEPT !.m = UpdateMem(@, ClockNow("db")),
                            !.pc = IF how = "bind" THEN "done" ELSE "bound",
                            !.err = IF how = "bind" THEN Err("bind") ELSE Nil]
    /\ ops' = ops + 1
    /\ UNCHANGED <<now, mem, store, nextId, txs, called, batch, last, ra, sel, nul, opts, rb, arr>>

\* The rest of that call: ExecContext with the values bound, RowsAffected(res, 1).
PeerUpdateExec(how) ==
    LET res == UpdateStmt(View("db"), peer.m, "id")
        out == Send("db", how, res)
    IN  /\ peer.pc = "bound"
        /\ ConnFree
        /\ ~(Delivered("db", how) /\ Blocked("db", res, {}))
        /\ Effect("db", out)
        /\ peer' = [peer EXCEPT !.pc = "done", !.err = ExecOne(how, out), !.n = out.n]
        /\ UNCHANGED <<now, mem, nextId, called, batch, ops, last, ra, sel, nul, opts, rb, arr>>

\* Two callers of DB.Update on the same DB, each with its own model.
NextRace ==
    \/ Tick
    \/ \E e \in Ent, how \in {"ok", "exec"} : DBUpdate(e, "id", how)
    \/ \E how \in {"ok", "bind"} : PeerUpdateBind(how)
    \/ \E how \in {"ok", "exec"} : PeerUpdateExec(how)
SpecRace == Init /\ [][NextRace]_vars

\* The connections of a DB created with WithMaxOpenConnections(n), or without
\* the option: statements on the pool, a Tx and an InsertBatch.
InitPool ==
    \E n \in {0, 1, 2, MaxOpenConnections} :
        Construct([newOptions EXCEPT !.MaxOpenConnections = n], NoTx)
NextPool ==
    \/ DBInsertStep \/ BatchStep \/ TxEndStep \/ TxInsertStep
    \/ \E how \in {"ok", "exec"} : DBExec(how)
SpecPool == InitPool /\ [][NextPool]_vars

\* The writes of a model, on the DB and on a Tx.
NextWrite == Tick \/ DBStep \/ TxEndStep \/ TxWriteStep
SpecWrite == Init /\ [][NextWrite]_vars

\* Select beside the writes of a model, on the DB and on a Tx.
NextSelect == NextWrite \/ DBSelectStep \/ TxSelectStep
SpecSelect == Init /\ [][NextSelect]_vars

\* The life of a model on the DB with templates that select by id: Insert,
\* Update, Delete, HardDelete and Select, beside a Tx that inserts, updates,
\* hard-deletes and selects.
DBLifeStep ==
    \/ DBInsertStep
    \/ \E e \in Ent, how \in How : DBUpdate(e, "id", how)
    \/ \E e \in Ent, how \in {"ok", "exec"} : DBDelete(e, "id", how)
    \/ \E e \in Ent : DBHardDelete(e, "id", "ok")
    \/ DBExec("ok")
TxLifeStep ==
    \/ TxInsertStep
    \/ \E e \in Ent : TxUpdate(e, "id", "ok")
    \/ \E e \in Ent : TxHardDelete(e, "id", "ok")
NextSoftDelete == Tick \/ DBLifeStep \/ DBSelectStep \/ TxEndStep \/ TxLifeStep \/ TxSelectStep
SpecSoftDelete == Init /\ [][NextSoftDelete]_vars

\* InsertBatch alone, as time passes.
NextBatchOnly == Tick \/ BatchStep
SpecBatchOnly == Init /\ [][NextBatchOnly]_vars

\* Insert through DB.Insert, Tx.Insert and DB.InsertBatch.
NextInsert == Tick \/ DBInsertStep \/ BatchStep \/ TxEndStep \/ TxInsertStep
SpecInsert == Init /\ [][NextInsert]_vars

\* -------------------------------------------------------------- properties

\* A step of the running InsertBatch call: an iteration of its loop or its
\* commit.
InBatch == batch.pc = "loop" /\ batch' # batch

\* C1: InsertBatch is all or nothing.  A step of the call changes the
\* committed rows only when it is the commit that follows the last insert
\* and that commit succeeds; the call then returns nil and every model of
\* the batch has its row among the rows added.  Every other return leaves
\* the committed rows as they were and nothing of the batch pending.
C1_BatchAllOrNothing ==
    [][InBatch =>
        IF batch'.pc = "done" /\ batch'.err = Nil
        THEN /\ batch.i = Len(batch.args) + 1
             /\ \A k \in 1..Len(batch.args) :
                  \E r \in store' \ store :
                     r.id = mem[batch.args[k]].ID /\ r.email = mem[batch.args[k]].Email
        ELSE /\ store' = store
             /\ batch'.pc = "done" => (View("batch"))' = store'
    ]_vars

\* C1 witness: the second insert of a batch of two violated the unique index
\* after the first had been executed, and the call returned that error.
C1_Witness ==
    /\ batch.pc = "done"
    /\ Len(batch.args) = 2
    /\ batch.i = 2
    /\ IsUniqueViolation(batch.err)
    /\ mem[batch.args[1]].ID \notin Ids(store)

\* A call of op returned in this step.
Returned(op) == last' # last /\ last'.op = op

\* The connections a call runs its statement on: the pool and the Tx.
Conn == {"db", "tx"}

\* The rows connection c sees that it did not see before the step.
Added(c) == (View(c))' \ View(c)

\* C2: Commit invokes the callbacks only when the backend commit succeeded:
\* the transaction is then committed and the callbacks invoked are the
\* registered ones, each once, in the order of registration.  When the
\* backend commit fails Commit returns the error and invokes none.
C2_CommitCallbacks ==
    [][Returned("Commit") =>
        LET reg == txs["tx"].oncommit
        IN  IF last'.err = Nil
            THEN /\ txs'["tx"].state = "committed"
                 /\ store' = View("tx")
                 /\ called' = [i \in 1..Len(reg) |-> i]
                 /\ called' = called \o reg
            ELSE /\ called' = called
                 /\ store' = store
    ]_vars

\* C2 witness: a Commit that succeeded with two callbacks registered, both
\* invoked in order.
C2_Witness ==
    /\ last.op = "Commit"
    /\ last.err = Nil
    /\ Len(txs["tx"].oncommit) = 2
    /\ called = <<1, 2>>

\* C3: Rollback invokes no callback.
C3_RollbackNoCallbacks ==
    [][Returned("Rollback") => called' = called]_vars

\* C3 witness: a Rollback that succeeded on a Tx with two callbacks
\* registered and an Insert attempted; none was invoked.
C3_Witness ==
    /\ last.op = "Rollback"
    /\ last.err = Nil
    /\ Len(txs["tx"].oncommit) = 2
    /\ txs["tx"].state = "rolledback"
    /\ mem["p1"].ID = NoID
    /\ mem["p1"].CreatedAt = now
    /\ called = <<>>

\* C4: the writes of a Tx that is rolled back never reach the committed
\* rows.  From Begin on, no step on the Tx but a Commit that succeeds changes
\* the committed rows, and once Rollback succeeded the transaction has
\* nothing pending: the committed rows are those of Begin.
C4_RollbackDiscards ==
    [][/\ (txs["tx"].state = "open" /\ ~(Returned("Commit") /\ last'.err = Nil))
            => store' = store
       /\ (Returned("Rollback") /\ last'.err = Nil)
            => (View("tx"))' = store' /\ txs'["tx"].state = "rolledback"
    ]_vars

\* C4 witness: Rollback succeeded after an Insert on the Tx had succeeded and
\* set the id the store generated; no committed row has that id.
C4_Witness ==
    /\ last.op = "Rollback"
    /\ last.err = Nil
    /\ mem["p1"].ID = 2
    /\ 2 \notin Ids(store)

WriteOps == {"Insert", "Update", "Delete", "HardDelete"}

\* A write of a model returned an error in this step.
WriteFailed == last' # last /\ last'.op \in WriteOps /\ last'.err # Nil

\* C5 as stated: when a write returns an error the model is as it was before
\* the call.
C5_NoMutationOnError ==
    [][WriteFailed => mem' = mem]_vars

\* C5: when a write returns an error, the model's id and deleted timestamp
\* are as before the call and no other model changed.  Delete and HardDelete
\* changed nothing; Insert has set the created and updated timestamps, and
\* Update the updated timestamp, to the instant of the call.
C5_ErrorFrame ==
    [][WriteFailed =>
        LET e == last'.ent
            op == last'.op
        IN  /\ \A f \in Ent \ {e} : mem'[f] = mem[f]
            /\ mem'[e].ID = mem[e].ID
            /\ mem'[e].DeletedAt = mem[e].DeletedAt
            /\ mem'[e].Email = mem[e].Email
            /\ op \in {"Delete", "HardDelete"} => mem'[e] = mem[e]
            /\ op = "Insert" => mem'[e].CreatedAt = now /\ mem'[e].UpdatedAt = now
            /\ op = "Update" => mem'[e].CreatedAt = mem[e].CreatedAt /\ mem'[e].UpdatedAt = now
    ]_vars

\* C5 witness: an Update of a model inserted earlier found no row; the call
\* returned not-found and the model carries the new updated timestamp.
C5_Witness ==
    /\ last.op = "Update"
    /\ IsErrNotFound(last.err)
    /\ mem[last.ent].CreatedAt = 1
    /\ mem[last.ent].UpdatedAt = now
    /\ now > 1

\* C6 as stated: an actual count of 0 yields not-found whatever the expected
\* count.
C6_ZeroAlwaysNotFound ==
    (ra.calls = 1 /\ ~ra.fail /\ ra.got = 0) => IsErrNotFound(ra.err)

\* C6: an actual count of 0 yields not-found when the expected count is not
\* 0, and success when the expected count is 0.
C6_ZeroNotFound ==
    (ra.calls = 1 /\ ~ra.fail /\ ra.got = 0) =>
        IF ra.want = 0 THEN ra.err = Nil ELSE ra.err = ErrNoRows

\* C6 witness: one row expected, none affected, not-found returned.
C6_Witness ==
    /\ ra.calls = 1
    /\ ~ra.fail
    /\ ra.got = 0
    /\ ra.want = 1
    /\ IsErrNotFound(ra.err)

\* C7: for an actual count that is not 0, RowsAffected returns nil when it
\* equals the expected count, and otherwise an error carrying both numbers
\* that is not the not-found condition.
C7_NonZeroCount ==
    (ra.calls = 1 /\ ~ra.fail /\ ra.got # 0) =>
        IF ra.got = ra.want THEN ra.err = Nil
        ELSE /\ ra.err.kind = "mismatch"
             /\ ra.err.got = ra.got
             /\ ra.err.want = ra.want
             /\ ~IsErrNotFound(ra.err)

\* C7 witness: one row expected, two affected, a mismatch returned.
C7_Witness ==
    /\ ra.calls = 1
    /\ ~ra.fail
    /\ ra.got = 2
    /\ ra.want = 1
    /\ ra.err = [kind |-> "mismatch", got |-> 2, want |-> 1]

\* C8: after Insert of a model that is not ExecInsertable succeeded, on the
\* DB or on a Tx, the model's id is the id the store generated for the row
\* the statement added, and its created and updated timestamps are both the
\* instant of the call; the row carries them.
C8_InsertSetsIdAndTimes ==
    [][\A c \in Conn : (Returned("Insert") /\ last'.ctx = c /\ ~ExecInsertable(last'.ent) /\ last'.err = Nil) =>
        LET e == last'.ent
        IN  /\ mem'[e].CreatedAt = now
            /\ mem'[e].UpdatedAt = now
            /\ mem'[e].ID = nextId
            /\ mem'[e].ID \notin Ids(View(c))
            /\ nextId' > nextId
            /\ RowOf(mem'[e].ID, mem'[e]) \in Added(c)
    ]_vars

\* C8 witness: an Insert on the Tx succeeded at instant 2 and the model has
\* the generated id 2 and both timestamps 2.
C8_Witness ==
    /\ last.op = "Insert"
    /\ last.ctx = "tx"
    /\ last.ent = "p1"
    /\ last.err = Nil
    /\ mem["p1"].ID = 2
    /\ mem["p1"].CreatedAt = 2
    /\ mem["p1"].UpdatedAt = 2
    /\ now = 2

\* An Insert of a model that is not ExecInsertable returned an error.
PlainInsertFailed == Returned("Insert") /\ ~ExecInsertable(last'.ent) /\ last'.err # Nil

BeforeVerify == {"bind", "exec", "23505", "25P02", "ErrTxDone", "result"}

\* The verdict of an exec insert that affected n rows.
ExecVerdict(err, n) ==
    IF n = 1 THEN err = Nil
    ELSE IF n = 0 THEN IsErrNotFound(err)
    ELSE err = [kind |-> "mismatch", got |-> n, want |-> 1]

\* C10: Insert of an ExecInsertable model, through DB.Insert, Tx.Insert and
\* InsertBatch, leaves the caller's id in place.  It succeeds only when the
\* statement affected exactly one row; when the count was read, zero rows
\* yield not-found and any other count a mismatch.
C10_ExecInsert ==
    [][/\ \A c \in Conn : (Returned("Insert") /\ last'.ctx = c /\ ExecInsertable(last'.ent)) =>
            /\ mem'[last'.ent].ID = mem[last'.ent].ID
            /\ last'.err = Nil => last'.n = 1 /\ Cardinality(Added(c)) = 1
            /\ last'.err.kind \notin BeforeVerify => ExecVerdict(last'.err, last'.n)
       /\ (InBatch /\ batch.i <= Len(batch.args) /\ ExecInsertable(batch.args[batch.i])) =>
            /\ mem'[batch.args[batch.i]].ID = mem[batch.args[batch.i]].ID
            /\ batch'.pc = "loop" =>
                  Cardinality(Added("batch")) = 1
            /\ batch'.pc = "done" =>
                  /\ last'.err = batch'.err
                  /\ last'.err # Nil
                  /\ last'.n # 1 \/ last'.err.kind \in BeforeVerify
                  /\ last'.err.kind \notin BeforeVerify => ExecVerdict(last'.err, last'.n)
    ]_vars

\* C10 witness: an exec insert whose statement added two rows returned a
\* mismatch of 2 against 1, the caller's id in place.
C10_Witness ==
    /\ last.op \in {"Insert", "InsertBatch"}
    /\ last.ent = "p4"
    /\ last.err = [kind |-> "mismatch", got |-> 2, want |-> 1]
    /\ mem["p4"].ID = ExtraID

\* C11: InsertBatch takes the models in the order given and stops at the
\* first that fails.  An iteration stamps and inserts the model at the
\* current index and no other; when its insert fails the call returns that
\* error at that index, and no iteration follows: the models after it are
\* neither stamped nor inserted.
C11_BatchStopsAtFirstError ==
    [][/\ (InBatch /\ batch.i <= Len(batch.args)) =>
            LET e == batch.args[batch.i]
            IN  /\ \A f \in Ent \ {e} : mem'[f] = mem[f]
                /\ \A r \in Added("batch") : r.email \in {e, NoEmail}
                /\ IF batch'.pc = "done"
                   THEN /\ batch'.err # Nil
                        /\ batch'.i = batch.i
                        /\ last'.op = "InsertBatch" /\ last'.ent = e
                        /\ last'.err = batch'.err
                        /\ txs'["batch"].state = "rolledback"
                   ELSE /\ batch'.err = Nil
                        /\ batch'.i = batch.i + 1
       /\ (InBatch /\ batch.i > Len(batch.args)) => batch'.pc = "done" /\ mem' = mem
       /\ (batch.pc = "done" /\ batch' # batch) => batch'.i = 1 /\ mem' = mem
    ]_vars

\* C11 witness: a batch of two different models failed at the first; the
\* second was never stamped.
C11_Witness ==
    /\ batch.pc = "done"
    /\ Len(batch.args) = 2
    /\ batch.i = 1
    /\ batch.err # Nil
    /\ batch.args[2] # batch.args[1]
    /\ mem[batch.args[2]] = NewModel(batch.args[2])
    /\ mem[batch.args[1]].CreatedAt = batch.t0

\* C12: when InsertBatch failed at the K-th model, the models before it keep
\* in memory the timestamps of the batch and the id their insert left, though
\* the store holds no row with that id.
C12_BatchLeavesMemory ==
    (batch.pc = "done" /\ batch.err # Nil) =>
        \A k \in 1..(batch.i - 1) :
            LET m == mem[batch.args[k]]
            IN  /\ m.CreatedAt = batch.t0
                /\ m.UpdatedAt = batch.t0
                /\ m.ID # NoID
                /\ m.ID \notin Ids(store)

\* C12 witness: the second insert of a batch failed; the first model, a
\* personModel, carries a generated id that no row has.
C12_Witness ==
    /\ batch.pc = "done"
    /\ batch.err # Nil
    /\ batch.i = 2
    /\ batch.args[1] = "p1"
    /\ mem["p1"].ID = nextId - 1
    /\ mem["p1"].ID \notin Ids(store)
    /\ mem["p1"].CreatedAt = batch.t0

\* C13: the clock is read once for a batch, when the call begins and before
\* its transaction does: every model the loop processes gets that instant as
\* created and updated timestamp, whatever the clock shows by then.
C13_BatchSameInstant ==
    [][/\ (batch' # batch /\ batch'.pc = "loop" /\ batch'.i = 1) =>
            batch'.t0 = now /\ txs["batch"].state # "open" /\ txs'["batch"].state = "open"
       /\ InBatch => batch'.t0 = batch.t0
       /\ (InBatch /\ batch.i <= Len(batch.args)) =>
            /\ mem'[batch.args[batch.i]].CreatedAt = batch.t0
            /\ mem'[batch.args[batch.i]].UpdatedAt = batch.t0
    ]_vars

\* C13 witness: a batch committed whose insert ran after the clock had
\* advanced; the model carries the instant of the begin.
C13_Witness ==
    /\ batch.pc = "done"
    /\ batch.err = Nil
    /\ Len(batch.args) = 1
    /\ batch.t0 < now
    /\ mem[batch.args[1]].CreatedAt = batch.t0
    /\ mem[batch.args[1]].UpdatedAt = batch.t0
    /\ mem[batch.args[1]].ID \in Ids(store)

\* C14: Update, on the DB and on a Tx, changes in memory the updated
\* timestamp of its model alone, to the instant of the call; the id, the
\* created and the deleted timestamp are as before, and so is every other
\* model.
C14_UpdateFrame ==
    [][Returned("Update") =>
        mem' = [mem EXCEPT ![last'.ent] = [@ EXCEPT !.UpdatedAt = now]]
    ]_vars

\* C14 witness: an Update succeeded at instant 2 on a model created at
\* instant 1: the updated timestamp alone moved.
C14_Witness ==
    /\ last.op = "Update"
    /\ last.err = Nil
    /\ now = 2
    /\ mem[last.ent] = [OldModel(last.ent) EXCEPT !.UpdatedAt = 2]

\* C15: Update succeeds only when its statement affected exactly one row.
\* When the count was read, no row yields not-found and more than one a
\* mismatch; a template that selects by id affects no row when no row has
\* the model's id, and a call that returns not-found changed no row.
C15_UpdateOneRow ==
    [][\A c \in Conn : (Returned("Update") /\ last'.ctx = c) =>
        /\ last'.err = Nil => last'.n = 1
        /\ last'.err.kind \notin BeforeVerify => ExecVerdict(last'.err, last'.n)
        /\ IsErrNotFound(last'.err) => (View(c))' = View(c)
        /\ (/\ Delivered(c, "ok")
            /\ mem[last'.ent].ID \notin Ids(View(c))
            /\ UpdateOn(c, last'.ent, "id", "ok")) => IsErrNotFound(last'.err)
    ]_vars

\* C15 witness: an Update by id of a model that has no row returned
\* not-found on the DB.
C15_Witness ==
    /\ last.op = "Update"
    /\ last.ctx = "db"
    /\ last.n = 0
    /\ IsErrNotFound(last.err)
    /\ mem[last.ent].ID \notin Ids(store)
    /\ mem[last.ent].UpdatedAt = now

\* C16: Delete, on the DB and on a Tx, sets the deleted timestamp of its
\* model when it succeeds, to the instant the statement wrote to the row, and
\* leaves the model as it was when it fails, not-found included.
C16_DeleteSetsDeletedAt ==
    [][\A c \in Conn : (Returned("Delete") /\ last'.ctx = c) =>
        IF last'.err = Nil
        THEN /\ mem' = [mem EXCEPT ![last'.ent] = [@ EXCEPT !.DeletedAt = [Valid |-> TRUE, Time |-> now]]]
             /\ last'.n = 1
             /\ \E r \in (View(c))' : r.deleted_at = mem'[last'.ent].DeletedAt
        ELSE mem' = mem
    ]_vars

\* C16 witness: a Delete on the DB succeeded and the row of the model is
\* soft-deleted at the instant the model carries.
C16_Witness ==
    /\ last.op = "Delete"
    /\ last.ctx = "db"
    /\ last.err = Nil
    /\ mem[last.ent].DeletedAt = [Valid |-> TRUE, Time |-> now]
    /\ \E r \in store : r.id = mem[last.ent].ID /\ r.deleted_at = mem[last.ent].DeletedAt

\* A Select of the id of model e, with a template that leaves out the
\* soft-deleted rows, returned on connection c in this step.
FilteredSelect(c, e) ==
    /\ Returned("Select")
    /\ last'.ctx = c
    /\ last'.ent = e
    /\ Delivered(c, "ok")
    /\ \E fresh \in BOOLEAN : SelectOn(c, e, "live", "ok", fresh)

HardDeleteRan(c) == Returned("HardDelete") /\ last'.ctx = c /\ Delivered(c, "ok")

\* C18 as stated: after Delete of a model succeeded, HardDelete of it fails.
C18_HardDeleteAfterDeleteFails ==
    [][(Returned("HardDelete") /\ mem[last'.ent].DeletedAt.Valid) => last'.err # Nil]_vars

\* C18: Delete leaves the row in the store, soft-deleted, so HardDelete of
\* the model afterwards succeeds and removes the row; HardDelete returns
\* not-found when no row has the model's id, and only then.
C18_HardDeleteAfterDelete ==
    [][\A c \in Conn :
        /\ (Returned("Delete") /\ last'.ctx = c /\ last'.err = Nil) =>
              \E r \in (View(c))' : r.id = mem[last'.ent].ID /\ r.deleted_at.Valid
        /\ HardDeleteRan(c) =>
              IF mem[last'.ent].ID \in Ids(View(c))
              THEN last'.err = Nil /\ mem[last'.ent].ID \notin Ids((View(c))')
              ELSE IsErrNotFound(last'.err) /\ (View(c))' = View(c)
    ]_vars

\* C18 witness: HardDelete succeeded on a model whose Delete had succeeded;
\* the row is gone.
C18_Witness ==
    /\ last.op = "HardDelete"
    /\ last.err = Nil
    /\ mem[last.ent].DeletedAt.Valid
    /\ mem[last.ent].ID \notin Ids(store)

\* C19: HardDelete never changes a model and succeeds only when its
\* statement removed exactly one row, after which the connection sees no row
\* with the model's id: HardDelete by id then returns not-found, and so does
\* Select for that id.
C19_HardDeleteOnce ==
    [][\A c \in Conn :
        /\ (Returned("HardDelete") /\ last'.ctx = c) =>
              /\ mem' = mem
              /\ last'.err = Nil =>
                    /\ last'.n = 1
                    /\ (View(c))' \subseteq View(c)
                    /\ Cardinality(View(c) \ (View(c))') = 1
                    /\ mem[last'.ent].ID \notin Ids((View(c))')
              /\ last'.err.kind \notin BeforeVerify => ExecVerdict(last'.err, last'.n)
        /\ (/\ HardDeleteRan(c)
            /\ mem[last'.ent].ID \notin Ids(View(c))
            /\ HardDeleteOn(c, last'.ent, "id", "ok")) => IsErrNotFound(last'.err)
        /\ \A e \in Ent :
              (/\ Returned("Select") /\ last'.ctx = c /\ last'.ent = e
               /\ Delivered(c, "ok")
               /\ mem[e].ID \notin Ids(View(c))
               /\ \E tmpl \in SelectTmpl, fresh \in BOOLEAN : SelectOn(c, e, tmpl, "ok", fresh))
                  => IsErrNotFound(last'.err)
    ]_vars

\* C19 witness: the second call made was a HardDelete of the model inserted
\* earlier that returned not-found; its row is gone and the other row is
\* there.
C19_Witness ==
    /\ last.op = "HardDelete"
    /\ last.seq = 2
    /\ last.ent = "p4"
    /\ IsErrNotFound(last.err)
    /\ mem["p4"] = OldModel("p4")
    /\ ExtraID \notin Ids(store)
    /\ 1 \in Ids(store)

\* C20: a Select, on the DB or on a Tx, whose template selects no row
\* returns sql.ErrNoRows and leaves the destination as it was: zero-valued
\* when it was, and with the values of the Select before otherwise.
C20_SelectNotFound ==
    [][\A c \in Conn, tmpl \in SelectTmpl, fresh \in BOOLEAN :
        (/\ Returned("Select") /\ last'.ctx = c
         /\ Delivered(c, "ok")
         /\ Target(View(c), SelectID(last'.ent), tmpl) = {}
         /\ SelectOn(c, last'.ent, tmpl, "ok", fresh)) =>
            /\ last'.err = ErrNoRows
            /\ IsErrNotFound(last'.err)
            /\ sel'.dest = IF fresh THEN ZeroModel ELSE sel.dest
    ]_vars

\* C20 witness: a Select for an id that no row has returned not-found while
\* the table is not empty; the destination is zero-valued.
C20_Witness ==
    /\ last.op = "Select"
    /\ last.ent = "nobody"
    /\ IsErrNotFound(last.err)
    /\ sel.id = MissingID
    /\ sel.dest = ZeroModel
    /\ store # {}

\* C21: the first Commit or Rollback of a Tx that succeeds finishes it.  On a
\* finished Tx, committed or rolled back, Rollback and Commit return
\* sql.ErrTxDone and change nothing: the rows a Commit made durable stay, and
\* no callback is invoked.
C21_FinishedByFirstEnd ==
    [][/\ (Returned("Commit") /\ last'.err = Nil) =>
              txs["tx"].state = "open" /\ txs'["tx"].state = "committed"
       /\ (Returned("Rollback") /\ last'.err = Nil) =>
              txs["tx"].state = "open" /\ txs'["tx"].state = "rolledback"
       /\ ((Returned("Rollback") \/ Returned("Commit")) /\ txs["tx"].state # "open") =>
              /\ last'.err = ErrTxDone
              /\ store' = store
              /\ txs' = txs
              /\ called' = called
              /\ mem' = mem
    ]_vars

\* C21 witness: the Tx inserted the personModel and committed; a Rollback
\* then returned sql.ErrTxDone and the row is in the store.
C21_Witness ==
    /\ last.op = "Rollback"
    /\ last.err = ErrTxDone
    /\ txs["tx"].state = "committed"
    /\ mem["p1"].ID = 2
    /\ \E r \in store : r.id = 2 /\ r.email = "p1"

\* The Tx is open and has sent no statement yet.
TxFresh == txs["tx"] = [NewTx EXCEPT !.oncommit = txs["tx"].oncommit]

\* What a call on the Tx did and what the same call on the DB would do from
\* the same state are one: the error returned, the model afterwards and the
\* rows the connection then sees.
Mirrors(e, r) ==
    /\ last'.err = r.err
    /\ last'.n = r.out.n
    /\ mem' = [mem EXCEPT ![e] = r.m]
    /\ (View("tx"))' = r.out.rows

Micro(m) ==
    [m EXCEPT !.CreatedAt = Timestamptz(@),
              !.UpdatedAt = Timestamptz(@),
              !.DeletedAt = NullTime(Timestamptz(@.Time))]

\* Select by the id of model e into a zero-valued destination returns want,
\* unless the template filters the soft-deleted rows and the model is one.
SelectsBack(e, want) ==
    \A tmpl \in SelectTmpl :
        (tmpl = "live" => ~mem[e].DeletedAt.Valid) =>
            LET r == SelectCall("db", mem[e].ID, ZeroModel, tmpl, "ok")
            IN  r.err = Nil /\ r.dest = want

\* A DB call of op on model e returned nil in this step.
Succeeded(op, e) ==
    Returned(op) /\ last'.ctx = "db" /\ last'.ent = e /\ last'.err = Nil

\* The running InsertBatch returned nil in this step.
BatchSucceeded == InBatch /\ batch'.pc = "done" /\ batch'.err = Nil

\* C23 as stated: the values selected back equal the in-memory values.
C23_SelectsBackMemory ==
    [][/\ \A e \in Ent :
            (Succeeded("Insert", e) \/ Succeeded("Update", e)) => (SelectsBack(e, mem[e]))'
       /\ BatchSucceeded =>
            \A k \in 1..Len(batch.args) : (SelectsBack(batch.args[k], mem[batch.args[k]]))'
    ]_vars

\* C23: after a successful Insert, InsertBatch or Update of a model, Select
\* by its id returns its id, its data fields and its timestamps as the
\* store keeps them: the in-memory instants cut to the microsecond.
C23_SelectsBackStored ==
    [][/\ \A e \in Ent :
            (Succeeded("Insert", e) \/ Succeeded("Update", e)) =>
                (SelectsBack(e, Micro(mem[e])))'
       /\ BatchSucceeded =>
            \A k \in 1..Len(batch.args) :
                (SelectsBack(batch.args[k], Micro(mem[batch.args[k]])))'
    ]_vars

\* C23 witness: the personModel was inserted with a clock that reads
\* nanoseconds and selected back; the destination has its id and its created
\* timestamp without the digits below the microsecond.
C23_Witness ==
    /\ last.op = "Select"
    /\ last.err = Nil
    /\ mem["p1"].ID = 2
    /\ sel.dest.ID = 2
    /\ mem["p1"].CreatedAt = Sub + 1
    /\ sel.dest.CreatedAt = 1
    /\ sel.dest = Micro(mem["p1"])

\* The insert template of model e, run on connection c at instant t0 with a
\* template that does not skip conflicts, violates the primary key or the
\* unique index.
Conflicts(c, e, t0) == UniqueViolation(View(c), InsertRow(mem[e], t0, ExecInsertable(e)))

\* What the caller gets for a uniqueness violation: the backend's error, which
\* is one for IsUniqueViolation and none for IsErrNotFound.
UniqueViolationReturned ==
    /\ IsUniqueViolation(last'.err)
    /\ ~IsErrNotFound(last'.err)
    /\ last'.err = Err("23505")

\* C24: when the statement of DB.Insert, or of an insert of DB.InsertBatch,
\* violates the primary key or the unique index, the call returns the
\* backend's error, IsUniqueViolation holds of it and IsErrNotFound does
\* not, and the store is as before the call; for InsertBatch the rows of the
\* models inserted before are rolled back.
C24_UniqueViolationReturned ==
    [][/\ \A e \in Ent, tmpl \in {"one", "two"}, how \in {"ok", "post"} :
            (DBInsert(e, tmpl, how) /\ Conflicts("db", e, ClockNow("db"))) =>
                UniqueViolationReturned /\ store' = store
       /\ \A tmpl \in {"one", "two"}, how \in {"ok", "post"} :
            (/\ InsertBatchStep(tmpl, how)
             /\ Conflicts("batch", batch.args[batch.i], batch.t0)) =>
                /\ UniqueViolationReturned
                /\ last'.op = "InsertBatch"
                /\ batch'.pc = "done" /\ batch'.err = last'.err
                /\ store' = store
                /\ (View("batch"))' = store
       /\ ((Returned("Insert") \/ Returned("InsertBatch")) /\ IsUniqueViolation(last'.err)) =>
            store' = store
    ]_vars

\* C24 witness: InsertBatch of the personModelExtra whose row is in the
\* store returned the uniqueness violation after one model was inserted;
\* the transaction is rolled back and the store has the rows it had.
C24_Witness ==
    /\ last.op = "InsertBatch"
    /\ IsUniqueViolation(last.err)
    /\ ~IsErrNotFound(last.err)
    /\ last.ent = "p4"
    /\ batch.pc = "done" /\ batch.i = 2 /\ batch.args[1] = "p1"
    /\ txs["batch"].state = "rolledback"
    /\ Ids(store) = {ExtraID}

\* A call took a connection of the pool in this step: a statement on the DB,
\* a Begin that succeeded or the BeginTxx of InsertBatch.
TakesConn ==
    \/ last' # last /\ last'.ctx = "db" /\ last'.op \in {"Insert", "Exec"}
    \/ Returned("Begin")
    \/ batch.pc # "loop" /\ batch' # batch

\* C25 as stated: the connections in use never exceed the configured
\* maximum, and a call takes one only while fewer are in use.
C25_WithinMaximum ==
    [][/\ InUse' <= opts.MaxOpenConnections
       /\ TakesConn => InUse < opts.MaxOpenConnections
    ]_vars

\* C25: with a positive configured maximum, 100 when the caller sets none,
\* the connections in use never exceed it: a call takes one only while
\* fewer are in use, and the Commit or Rollback of a Tx frees one.  A
\* maximum of zero is no limit.
C25_WithinPositiveMaximum ==
    [][/\ opts.MaxOpenConnections > 0 =>
            /\ InUse' <= opts.MaxOpenConnections
            /\ TakesConn => InUse < opts.MaxOpenConnections
            /\ ((Returned("Commit") \/ Returned("Rollback")) /\ txs["tx"].state = "open") =>
                   ConnFree'
       /\ opts.MaxOpenConnections <= 0 => ConnFree
       /\ opts' = opts
    ]_vars

\* C25 witness: with a maximum of one, the Tx holds the connection and the
\* callers of the DB wait.
C25_Witness ==
    /\ opts.MaxOpenConnections = 1
    /\ txs["tx"].state = "open"
    /\ last.op = "Insert" /\ last.ctx = "tx"
    /\ InUse = 1
    /\ ~ConnFree

\* The row of the table with the id of model m.
Stored(rows, m) == {r \in rows : r.id = m.ID}

\* C26: Update detects no conflict.  When two callers update models with the
\* same id, each Update succeeds whenever the row exists, whatever the other
\* caller has written or is about to write; the row then holds the values of
\* the statement that ran last, and the model of the other caller differs
\* from it.
C26_LastUpdateWins ==
    [][/\ (DBUpdate("p1", "id", "ok") /\ Stored(store, mem["p1"]) # {}) =>
            /\ last'.err = Nil
            /\ Stored(store', mem["p1"]) = {RowOf(mem["p1"].ID, mem'["p1"])}
            /\ peer.m.ID = mem["p1"].ID =>
                   RowOf(peer.m.ID, peer.m) \notin store'
       /\ (PeerUpdateExec("ok") /\ Stored(store, peer.m) # {}) =>
            /\ peer'.err = Nil
            /\ Stored(store', peer.m) = {RowOf(peer.m.ID, peer.m)}
            /\ peer.m.ID = mem["p1"].ID =>
                   RowOf(mem["p1"].ID, mem["p1"]) \notin store'
    ]_vars

\* C26 witness: the other caller stamped and bound its model first, this
\* caller's Update ran in between, and the other caller's statement ran last:
\* both returned nil and the row holds the other caller's older values.
C26_Witness ==
    /\ peer.pc = "done" /\ peer.err = Nil /\ peer.n = 1
    /\ last.op = "Update" /\ last.ent = "p1" /\ last.err = Nil
    /\ peer.m.ID = mem["p1"].ID
    /\ peer.m.UpdatedAt < mem["p1"].UpdatedAt
    /\ RowOf(peer.m.ID, peer.m) \in store
    /\ RowOf(mem["p1"].ID, mem["p1"]) \notin store

\* The number of characters ch in query.
Count(query, ch) == Cardinality({i \in DOMAIN query : query[i] = ch})

\* The query with '?' for every marker: a dollar and the numeral after it.
RECURSIVE Unmarked(_)
Unmarked(query) ==
    IF query = <<>> THEN <<>>
    ELSE IF Head(query) = "$" THEN <<"?">> \o Unmarked(SubSeq(query, 3, Len(query)))
    ELSE <<Head(query)>> \o Unmarked(Tail(query))

\* The markers of query are $1..$n, numbered from left to right.
Numbered(query, n) ==
    /\ Count(query, "$") = n
    /\ \A i \in DOMAIN query :
         query[i] = "$" =>
            /\ i < Len(query)
            /\ query[i + 1] = Numeral[Cardinality({k \in 1..i : query[k] = "$"})]

\* C27: DB.Rebind and Tx.Rebind of a query with N '?' markers return a query
\* with the N markers $1..$N, numbered from left to right, no '?' left and
\* the rest of the text unchanged.
C27_RebindNumbersMarkers ==
    rb.op = "Rebind" =>
        /\ Numbered(rb.sent, Count(rb.query, "?"))
        /\ Count(rb.sent, "?") = 0
        /\ Unmarked(rb.sent) = rb.query

\* C27 witness: Tx.Rebind returned a query with two markers and text between
\* them.
C27_Witness ==
    /\ rb.op = "Rebind" /\ rb.ctx = "tx"
    /\ rb.query = <<"?", "a", "?">>
    /\ rb.sent = <<"$", "1", "a", "$", "2">>

\* C28: Select, Delete and HardDelete hand the driver the template rebound
\* exactly when the DB was created with WithRebindModel, on the DB and on a
\* Tx alike (the Tx has the flag of its DB, which never changes); Insert and
\* Update leave every '?' of their template in place.
C28_RebindModelByOption ==
    /\ txs["tx"].state # "none" => rb.tx = opts.RebindModel
    /\ rb.op \in {"Select", "Delete", "HardDelete"} =>
         IF opts.RebindModel
         THEN /\ Count(rb.sent, "?") = 0
              /\ Unmarked(rb.sent) = rb.query
              /\ Numbered(rb.sent, Count(rb.query, "?"))
         ELSE rb.sent = rb.query
    /\ rb.op \in {"Insert", "Update"} =>
         /\ Count(rb.sent, "?") = Count(rb.query, "?")
         /\ \A i \in DOMAIN rb.query :
              rb.query[i] = "?" =>
                 \E k \in DOMAIN rb.sent :
                    /\ rb.sent[k] = "?"
                    /\ Count(SubSeq(rb.sent, 1, k), "?") = Count(SubSeq(rb.query, 1, i), "?")

\* C28 witness: without the option, Delete on a Tx handed the driver its
\* template with the '?' in it.
C28_Witness ==
    /\ ~opts.RebindModel
    /\ rb.op = "Delete" /\ rb.ctx = "tx"
    /\ txs["tx"].state = "open"
    /\ Count(rb.query, "?") = 2
    /\ rb.sent = rb.query

\* C29: an array of a supported element type written to a column and
\* selected back is the array written: nil for nil, and a slice of the same
\* elements, of length zero for length zero, otherwise.
C29_ArrayRoundTrip ==
    arr.op = "Select" =>
        /\ arr.err = Nil
        /\ arr.dest.nil = arr.S.nil
        /\ arr.dest.elems = arr.S.elems

\* C29 witness: a slice of length zero was written and selected back as a
\* slice of length zero that is not nil.
C29_Witness ==
    /\ arr.op = "Select" /\ arr.T = "string"
    /\ arr.S = Slice(<<>>)
    /\ arr.col.text = <<"{", "}">>
    /\ ~arr.dest.nil

\* C30: ArrayScan of an absent source returns nil and leaves the destination
\* nil, not of length zero, for every type identifier, and so does Scan on
\* an Array of every element type that has an identifier.
C30_AbsentDecodesToNil ==
    (arr.op \in {"ArrayScan", "Scan", "Select"} /\ arr.src.kind = "nil" /\ arr.T \in ElemType) =>
        /\ arr.err = Nil
        /\ arr.dest = NilSlice

\* C30 witness: ArrayScan into a slice of length zero, with the identifier of
\* an element type other than the destination's, got an absent source.
C30_Witness ==
    /\ arr.op = "ArrayScan" /\ arr.src.kind = "nil"
    /\ arr.oid = "CIDArrayOID" /\ arr.T = "int"
    /\ arr.S = Slice(<<>>)
    /\ arr.dest.nil

\* The same source handed over as the other of bytes and string.
Twin(src) == [src EXCEPT !.kind = IF @ = "bytes" THEN "string" ELSE "bytes"]

C32_ErrorLeavesDestination ==
    (arr.op \in {"ArrayScan", "Scan"} /\ arr.err # Nil) => arr.dest = arr.S

\* C32 witness: Scan of text that is no literal failed on an array of length
\* zero, which is still of length zero and not nil.
C32_Witness ==
    /\ arr.op = "Scan" /\ arr.T = "int"
    /\ arr.src.text = <<"1">>
    /\ arr.err # Nil
    /\ arr.S = Slice(<<>>) /\ arr.dest = Slice(<<>>)

\* C33: Scan on an Array of a type the backend has no array of fails with
\* the no-identifier error for every source, nil included, and leaves the
\* array alone.
C33_NoTypeForElement ==
    (arr.op = "Scan" /\ arr.T \notin ElemType) =>
        /\ arr.err = Err("cannot type")
        /\ arr.dest = arr.S

\* C33 witness: Scan(nil) on an Array[arrayModel] failed.
C33_Witness ==
    /\ arr.op = "Scan" /\ arr.T = "arrayModel"
    /\ arr.src.kind = "nil"
    /\ arr.err = Err("cannot type")

\* C34: SetDeletedAt with the zero time clears the soft-delete marker, with
\* any other time it sets the marker to that time, and it changes no other
\* field of the model and no other model.
C34_SetDeletedAt ==
    [][\A e \in Ent, t \in {ZeroTime, ClockNow("db")} :
          SetDeletedAtCall(e, t) =>
             /\ mem'[e].DeletedAt.Valid = (t # ZeroTime)
             /\ mem'[e].DeletedAt.Time = t
             /\ mem'[e].ID = mem[e].ID
             /\ mem'[e].CreatedAt = mem[e].CreatedAt
             /\ mem'[e].UpdatedAt = mem[e].UpdatedAt
             /\ mem'[e].Email = mem[e].Email
             /\ \A o \in Ent \ {e} : mem'[o] = mem[o]
    ]_vars

\* C34 witness: a model soft-deleted by Delete had its marker cleared by
\* SetDeletedAt with the zero time.
C34_Witness ==
    /\ last.op = "Delete" /\ last.ent = "p1" /\ last.err = Nil
    /\ \E r \in store : r.id = mem["p1"].ID /\ r.deleted_at.Valid
    /\ ~mem["p1"].DeletedAt.Valid
    /\ mem["p1"].DeletedAt.Time = ZeroTime

\* C35: every Null helper returns its argument as the payload, valid exactly
\* when the argument is not the zero value of its type.
C35_NullHelpers ==
    /\ nul.fn = "NullBool" => nul.out.Bool = nul.arg /\ nul.out.Valid = nul.arg
    /\ nul.fn = "NullByte" => nul.out.Byte = nul.arg /\ nul.out.Valid = (nul.arg # 0)
    /\ nul.fn = "NullFloat64" => nul.out.Float64 = nul.arg /\ nul.out.Valid = (nul.arg # 0)
    /\ nul.fn = "NullInt16" => nul.out.Int16 = nul.arg /\ nul.out.Valid = (nul.arg # 0)
    /\ nul.fn = "NullInt32" => nul.out.Int32 = nul.arg /\ nul.out.Valid = (nul.arg # 0)
    /\ nul.fn = "NullInt64" => nul.out.Int64 = nul.arg /\ nul.out.Valid = (nul.arg # 0)
    /\ nul.fn = "NullString" => nul.out.String = nul.arg /\ nul.out.Valid = (nul.arg # "")
    /\ nul.fn = "NullTime" => nul.out.Time = nul.arg /\ nul.out.Valid = (nul.arg # ZeroTime)

\* C35 witness: NullString of the empty string returned a value that is not
\* valid.
C35_Witness ==
    /\ nul.fn = "NullString"
    /\ nul.arg = ""
    /\ ~nul.out.Valid

\* The Tx is open and its statements run.
TxRuns == txs["tx"].state = "open" /\ ~txs["tx"].failed

\* C36: a write through a Tx leaves its row among the rows the Tx reads, so a
\* Select on the same Tx before Commit returns the row as written; a Commit
\* that succeeds puts the rows the Tx wrote in the store, where a Select on
\* the DB returns them.
C36_TxWritesVisible ==
    [][/\ \A e \in Ent :
            (TxRuns /\ (TxInsert(e, "one", "ok") \/ TxUpdate(e, "id", "ok")) /\ last'.err = Nil) =>
                RowOf(mem'[e].ID, mem'[e]) \in (View("tx"))'
       /\ \A e \in Ent :
            (TxRuns /\ TxSelect(e, "id", "ok", TRUE)) =>
                \A r \in View("tx") :
                    r.id = mem[e].ID => last'.err = Nil /\ sel'.dest = StructScan(ZeroModel, r)
       /\ (Returned("Commit") /\ last'.err = Nil) => store' = View("tx")
       /\ \A e \in Ent :
            DBSelect(e, "id", "ok", TRUE) =>
                \A r \in store :
                    r.id = mem[e].ID => last'.err = Nil /\ sel'.dest = StructScan(ZeroModel, r)
    ]_vars

\* C36 witness: the row a Tx inserted was selected on the Tx before Commit,
\* while the store did not hold it.
C36_Witness ==
    /\ TxRuns
    /\ last.op = "Select" /\ last.ctx = "tx" /\ last.err = Nil
    /\ sel.dest.ID = sel.id
    /\ \E r \in txs["tx"].rows : r.id = sel.id
    /\ \A r \in store : r.id # sel.id

\* C36 second case: the row a Tx inserted was selected on the DB after the
\* Commit.
C36_WitnessCommitted ==
    /\ txs["tx"].state = "committed"
    /\ last.op = "Select" /\ last.ctx = "db" /\ last.err = Nil
    /\ sel.dest.ID = sel.id
    /\ \A e \in Ent : OldModel(e).ID # sel.id

\* C37: once BeginTxx succeeded, InsertBatch returns with its transaction
\* finished, on every path: committed, with the rows in the store, when it
\* returns nil (the deferred Rollback undoes nothing), and rolled back, with
\* the store as it was, when it returns an error.  No connection stays
\* borrowed by it.
C37_BatchTxFinished ==
    [][(batch'.pc = "done" /\ batch'.err # Err("begin")) =>
          /\ txs'["batch"].state \in {"committed", "rolledback"}
          /\ txs'["batch"].rows = {} /\ txs'["batch"].touched = {}
          /\ InUse' = InUse - (IF txs["batch"].state = "open" THEN 1 ELSE 0)
          /\ (batch.pc = "loop" /\ batch'.err = Nil) =>
                /\ txs'["batch"].state = "committed"
                /\ store' = View("batch")
          /\ (batch.pc = "loop" /\ batch'.err # Nil) =>
                /\ txs'["batch"].state = "rolledback"
                /\ store' = store
    ]_vars

\* C37 witness: InsertBatch returned the error of its second insert, with a
\* first insert that had succeeded, and its transaction is rolled back.
C37_Witness ==
    /\ batch.pc = "done" /\ batch.i = 2
    /\ batch.err # Nil /\ batch.err # Err("begin")
    /\ txs["batch"].state = "rolledback"
    /\ last.op = "InsertBatch" /\ last.err = batch.err

\* C37 second case: InsertBatch returned nil, its transaction is committed
\* and the rows of its models are in the store.
C37_WitnessCommitted ==
    /\ batch.pc = "done" /\ batch.err = Nil
    /\ Len(batch.args) = 2 /\ batch.args[1] # batch.args[2]
    /\ txs["batch"].state = "committed"
    /\ \A i \in DOMAIN batch.args :
         RowOf(mem[batch.args[i]].ID, mem[batch.args[i]]) \in store

\* C38: over the lifetime of a Tx no post-commit callback is invoked twice.
\* Only a Commit that returns nil invokes callbacks, the ones registered so
\* far; a Commit on a Tx already committed or rolled back returns the
\* transaction-done error and invokes none, and so do Rollback and a
\* PostCommit that registers a callback after the Commit.
C38_CallbacksAtMostOnce ==
    [][/\ \A i, j \in DOMAIN called' : called'[i] = called'[j] => i = j
       /\ (Returned("Commit") /\ txs["tx"].state # "open") =>
             last'.err = ErrTxDone /\ called' = called
       /\ (Returned("Commit") /\ last'.err # Nil) => called' = called
       /\ (Returned("Commit") /\ last'.err = Nil) =>
             called = <<>> /\ called' = txs["tx"].oncommit
       /\ Returned("Rollback") => called' = called
       /\ txs'["tx"].oncommit # txs["tx"].oncommit =>
             called' = IF Returned("Begin") THEN <<>> ELSE called
    ]_vars

\* C38 witness: a callback was registered, Commit invoked it, a second
\* callback was registered after the Commit, and a second Commit returned the
\* transaction-done error: the first was invoked once, the second never.
C38_Witness ==
    /\ txs["tx"].state = "committed"
    /\ txs["tx"].oncommit = <<1, 2>>
    /\ called = <<1>>
    /\ last.op = "Commit" /\ last.err = ErrTxDone

\* C39: a Tx.Insert, Tx.Update or Tx.Delete that succeeds stamps the entity in
\* memory (the id the store generated, created/updated/deleted timestamps of
\* the Tx clock) without making any row change durable, and a Rollback of that
\* Tx leaves both the entities in memory and the store as they were: the
\* stamps stay, the rows never arrive.
TxSucceeded(op, e) ==
    /\ TxRuns
    /\ Returned(op) /\ last'.ctx = "tx" /\ last'.ent = e /\ last'.err = Nil

C39_RollbackKeepsMemory ==
    [][/\ \A e \in Ent :
            TxSucceeded("Insert", e) =>
                /\ store' = store
                /\ mem'[e].CreatedAt = ClockNow("tx") /\ mem'[e].UpdatedAt = ClockNow("tx")
                /\ ~ExecInsertable(e) => mem'[e].ID \notin {NoID} \cup Ids(store)
       /\ \A e \in Ent :
            TxSucceeded("Update", e) =>
                store' = store /\ mem'[e].UpdatedAt = ClockNow("tx")
       /\ \A e \in Ent :
            TxSucceeded("Delete", e) =>
                store' = store /\ mem'[e].DeletedAt = NullTime(ClockNow("tx"))
       /\ Returned("Rollback") => mem' = mem /\ store' = store
    ]_vars

\* C39 witness: a Tx inserted p1 and soft-deleted it, then was rolled back;
\* p1 keeps the generated id and the timestamps, the store holds no such row.
C39_Witness ==
    /\ txs["tx"].state = "rolledback"
    /\ last.op = "Rollback" /\ last.err = Nil
    /\ mem["p1"].ID \notin {NoID} \cup Ids(store)
    /\ mem["p1"].CreatedAt # ZeroTime
    /\ mem["p1"].DeletedAt.Valid

\* C40: a DB.Update, DB.Delete or DB.HardDelete whose statement affects more
\* than one row returns the count-mismatch error, and the statement's effect
\* on every one of those rows is in the store all the same; the failed
\* DB.Delete leaves the entity in memory as it was, its deleted timestamp
\* included, while the rows are soft-deleted.
Mismatch(got) == [kind |-> "mismatch", got |-> got, want |-> 1]

C40_MismatchIsDurable ==
    [][\A e \in Ent :
        LET many == Cardinality(store) > 1
            t0 == Timestamptz(ClockNow("db"))
        IN  /\ (many /\ DBUpdate(e, "wide", "ok")) =>
                    /\ last'.err = Mismatch(Cardinality(store))
                    /\ store' = {[r EXCEPT !.created_at = Timestamptz(mem[e].CreatedAt),
                                           !.updated_at = t0,
                                           !.deleted_at = NullTime(Timestamptz(mem[e].DeletedAt.Time))]
                                  : r \in store}
            /\ (many /\ DBDelete(e, "wide", "ok")) =>
                    /\ last'.err = Mismatch(Cardinality(store))
                    /\ store' = {[r EXCEPT !.deleted_at = NullTime(t0)] : r \in store}
                    /\ mem'[e] = mem[e]
            /\ (many /\ DBHardDelete(e, "wide", "ok")) =>
                    /\ last'.err = Mismatch(Cardinality(store))
                    /\ store' = {}
    ]_vars

\* C40 witness: a DB.Delete soft-deleted two rows and returned the mismatch,
\* the entity in memory has no deleted timestamp.
C40_Witness ==
    /\ last.op = "Delete" /\ last.ctx = "db" /\ last.err = Mismatch(2)
    /\ Cardinality(store) = 2
    /\ \A r \in store : r.deleted_at.Valid
    /\ ~mem[last.ent].DeletedAt.Valid

\* C40 further cases: an Update and a HardDelete that returned the mismatch
\* after changing two rows.
C40_WitnessUpdate ==
    /\ last.op = "Update" /\ last.ctx = "db" /\ last.err = Mismatch(2)
    /\ Cardinality(store) = 2
    /\ \A r \in store : r.updated_at = Timestamptz(mem[last.ent].UpdatedAt) /\ r.updated_at # 1

C40_WitnessHardDelete ==
    /\ last.op = "HardDelete" /\ last.ctx = "db" /\ last.err = Mismatch(2)
    /\ store = {}

====
